---- MODULE Spec2Model ----
(***************************************************************************)
(* Model of super-monitor-v3: the monitoring engine (MonitorService), the  *)
(* monitor loop that drives it under the write half of a tokio RwLock, and *)
(* the web handlers that read it under the read half.                      *)
(*                                                                         *)
(* Numbers.  Readings are f64 in the source.  Here a reading is an integer *)
(* count of 1/Scale units (Scale = 2: halves), so 10.0 is 10 * Scale.      *)
(* A BaselineStats {mean, std, sample_count} is kept exactly as            *)
(*   mean = mean_num / den,   std = sqrt(std_rad) / den   (same units),    *)
(* and the deviation test is decided exactly by cross-multiplying and      *)
(* squaring; the f64 rounding error of the source is not modelled.         *)
(***************************************************************************)
EXTENDS Integers, Sequences, FiniteSets, TLC

\* ------------------------------------------------------------------ bounds
Scale == 2
MaxTicks == 21
MaxChanges == 1
MaxRefreshes == 2
MaxSaves == 2
MaxCrashes == 1
MaxPushes == 63

\* ------------------------------------------------------- program constants
MinSamples == 20
DefaultThreshold == 3
DefaultWindow == 60
Unreachable == -1
HighTemp == 80
DefaultLimit == 60

\* --------------------------------------------------------------- helpers
Abs(x) == IF x < 0 THEN -x ELSE x

Range(s) == { s[i] : i \in 1..Len(s) }

\* values.iter().sum()
Sum(values) ==
  LET acc[i \in 0..Len(values)] == IF i = 0 THEN 0 ELSE acc[i - 1] + values[i]
  IN  acc[Len(values)]

\* the element of a one-element set: The({ e(x) : x \in {a} }) is e(a), with a
\* evaluated once (a `let x = a;` of the source)
The(S) == CHOOSE x \in S : TRUE

\* format!("{:.0}", value): the decimal rendering with no fraction digits,
\* ties to even.  v is in 1/Scale units, the result is a whole number.
\* (Readings strictly between -0.5 and 0, which render as "-0", are not among
\* the model's inputs.)
Round0(v) ==
  LET a == Abs(v)
      q == a \div Scale
      r == a % Scale
      m == IF 2 * r > Scale THEN q + 1
           ELSE IF 2 * r < Scale THEN q
           ELSE IF q % 2 = 0 THEN q ELSE q + 1
  IN  IF v < 0 THEN -m ELSE m

\* ---------------------------------------------------------- configuration
\* MonitoringConfig::default().monitored_hosts
monitored_hosts == << "8.8.8.8", "1.1.1.1" >>

HostSet == Range(monitored_hosts)

\* the seven fixed signals, in the order of `checks` in detect_anomalies
FixedSignals == << "cpu", "ram", "disk", "temp", "ping", "net", "fail" >>

Label(metric) ==
  CASE metric = "cpu"  -> "CPU"
    [] metric = "ram"  -> "RAM"
    [] metric = "disk" -> "Disk"
    [] metric = "temp" -> "Temp"
    [] metric = "ping" -> "Ping"
    [] metric = "net"  -> "Connections"
    [] metric = "fail" -> "Failed Login"

\* the field of a SystemMetrics sample a fixed signal is read from
Reading(m, metric) ==
  CASE metric = "cpu"  -> m.cpu_percent
    [] metric = "ram"  -> m.ram_percent
    [] metric = "disk" -> m.disk_percent
    [] metric = "temp" -> m.temperature
    [] metric = "ping" -> m.ping_ms
    [] metric = "net"  -> m.net_connections
    [] metric = "fail" -> m.failed_logins

\* --------------------------------------------------------- BaselineStats
Stats(mean_num, std_rad, den, n) ==
  [ mean_num |-> mean_num, std_rad |-> std_rad, den |-> den, sample_count |-> n ]

\* calculate_stats: None for an empty slice, else the population statistics.
\* With N values of sum S: mean = S/N; the squared deviations (v - S/N)^2
\* sum to (sum of (N*v - S)^2) / N^2, and dividing by N and taking the root
\* gives std = sqrt((sum of (N*v - S)^2) / N) / N, the division being exact.
NoStats == Stats(0, 0, 1, 0)

\* (v - mean)^2 for each v, times N^2:  (N*v - S)^2
SquaredDeviations(values, S) ==
  [ i \in 1..Len(values) |->
      (Len(values) * values[i] - S) * (Len(values) * values[i] - S) ]

\* (a slip: the summed squares are not divided by the number of values)
calculate_stats_nodiv(values) ==
  The({ IF Len(v) = 0 THEN << FALSE, NoStats >>
        ELSE The({ << TRUE, Stats(S, Sum(SquaredDeviations(v, S)), Len(v), Len(v)) >>
                   : S \in { Sum(v) } })
        : v \in { values } })

calculate_stats(values) ==
  The({ IF Len(v) = 0 THEN << FALSE, NoStats >>
        ELSE The({ << TRUE, Stats(S, Sum(SquaredDeviations(v, S)) \div Len(v),
                                 Len(v), Len(v)) >>
                   : S \in { Sum(v) } })
        : v \in { values } })

\* a map (HashMap) as a function; insert adds or replaces a key
Insert(map, k, v) == (k :> v) @@ map

EmptyMap == [ x \in {} |-> NoStats ]

\* ---------------------------------------------------------- SystemMetrics
Sample(cpu, ram, disk, temp, ping, net, fail, hosts) ==
  [ cpu_percent |-> cpu, ram_percent |-> ram, disk_percent |-> disk,
    temperature |-> temp, ping_ms |-> ping, net_connections |-> net,
    failed_logins |-> fail, host_status |-> hosts ]

\* history.iter().map(|m| m.<field>).collect()
Column(history, metric) == [ i \in 1..Len(history) |-> Reading(history[i], metric) ]

\* history.iter().filter_map(|m| m.host_status.get(host).copied()).collect()
HostColumn(history, host) ==
  The({ [ i \in 1..Len(seen) |-> seen[i].host_status[host] ]
        : seen \in { SelectSeq(history, LAMBDA m : host \in DOMAIN m.host_status) } })

\* ---------------------------------------------------------- learn_baseline
InsertStats(b, key, values) ==
  The({ IF r[1] THEN Insert(b, key, r[2]) ELSE b : r \in { calculate_stats(values) } })

RECURSIVE LearnFixed(_, _, _)
LearnFixed(b, history, k) ==
  IF k > Len(FixedSignals) THEN b
  ELSE LearnFixed(InsertStats(b, FixedSignals[k], Column(history, FixedSignals[k])),
                  history, k + 1)

RECURSIVE LearnHosts(_, _, _)
LearnHosts(b, history, k) ==
  IF k > Len(monitored_hosts) THEN b
  ELSE LearnHosts(InsertStats(b, monitored_hosts[k], HostColumn(history, monitored_hosts[k])),
                  history, k + 1)

\* (a slip: the early return on a short window is missing)
learn_baseline_anylen(history, b) ==
  IF history = << >> THEN b
  ELSE LearnHosts(LearnFixed(b, history, 1), history, 1)

learn_baseline(history, b) ==
  IF Len(history) < MinSamples THEN b
  ELSE LearnHosts(LearnFixed(b, history, 1), history, 1)

\* -------------------------------------------------------- detect_anomalies
\* An anomaly descriptor.  The source renders it as a string; the model keeps
\* the parts the string is made of:
\*   "Learning..." | "All Normal"
\*   "Anomaly: {label} {value} (Normal: {mean}+-{std})"      unit ""
\*   "Anomaly: {host} {value}ms (Normal: {mean}+-{std})"     unit "ms"
\*   "Device Down: {host}" | "Threat IP: {ip}"
Descriptor(kind, subject, unit, value, normal) ==
  [ kind |-> kind, subject |-> subject, unit |-> unit, value |-> value, normal |-> normal ]

Learning == Descriptor("Learning...", "", "", 0, NoStats)
AllNormal == Descriptor("All Normal", "", "", 0, NoStats)
AnomalyOf(label, value, b) == Descriptor("Anomaly", label, "", value, b)
HostAnomalyOf(host, value, b) == Descriptor("Anomaly", host, "ms", value, b)
DeviceDown(host) == Descriptor("Device Down", host, "", 0, NoStats)
ThreatIP(ip) == Descriptor("Threat IP", ip, "", 0, NoStats)

\* format!("{}-{:.0}", metric, value)
FeedbackKey(metric, value) == << metric, Round0(value) >>

\* self.feedback.get(&feedback_key).copied().unwrap_or(false)
Dismissed(feedback, key) == IF key \in DOMAIN feedback THEN feedback[key] ELSE FALSE

\* baseline.std > 0.0
StdPositive(b) == b.std_rad > 0

\* (value - baseline.mean).abs() > threshold * baseline.std, threshold = num/den.
\* Multiplied by b.den * threshold.den > 0 it reads  L > num * sqrt(std_rad);
\* a negative right side is below every L >= 0, otherwise both sides square.
Deviates(value, b, threshold) ==
  LET L == Abs(value * b.den - b.mean_num) * threshold.den
  IN  IF threshold.num < 0
      THEN L > 0 \/ b.std_rad > 0
      ELSE L * L > threshold.num * threshold.num * b.std_rad

\* (a slip: >= for >)
FlaggedAtLeast(value, b, threshold) ==
  /\ StdPositive(b)
  /\ \/ Deviates(value, b, threshold)
     \/ Abs(value * b.den - b.mean_num) * threshold.den
          * Abs(value * b.den - b.mean_num) * threshold.den
        = threshold.num * threshold.num * b.std_rad

\* (a slip: the std > 0 test is missing)
FlaggedNoStdTest(value, b, threshold) == Deviates(value, b, threshold)

\* the first two conjuncts of the test at lines 328-329 and 345
Flagged(value, b, threshold) == StdPositive(b) /\ Deviates(value, b, threshold)

\* (a slip: the feedback lookup is missing)
CheckFixedNoFeedback(metric, value, baselines, feedback, threshold) ==
  IF metric \in DOMAIN baselines /\ Flagged(value, baselines[metric], threshold)
  THEN << AnomalyOf(Label(metric), value, baselines[metric]) >>
  ELSE << >>

\* one iteration of the loop over `checks`
CheckFixed(metric, value, baselines, feedback, threshold) ==
  IF /\ metric \in DOMAIN baselines
     /\ Flagged(value, baselines[metric], threshold)
     /\ ~Dismissed(feedback, FeedbackKey(metric, value))
  THEN << AnomalyOf(Label(metric), value, baselines[metric]) >>
  ELSE << >>

RECURSIVE CheckFixedFrom(_, _, _, _, _)
CheckFixedFrom(k, latest, baselines, feedback, threshold) ==
  IF k > Len(FixedSignals) THEN << >>
  ELSE CheckFixed(FixedSignals[k], Reading(latest, FixedSignals[k]),
                  baselines, feedback, threshold)
       \o CheckFixedFrom(k + 1, latest, baselines, feedback, threshold)

\* (a slip: the unreachable test comes after the baseline lookup)
CheckHostBaselineFirst(host, ping_time, baselines, threshold) ==
  IF host \in DOMAIN baselines
  THEN IF ping_time < 0 THEN << DeviceDown(host) >>
       ELSE IF Flagged(ping_time, baselines[host], threshold)
            THEN << HostAnomalyOf(host, ping_time, baselines[host]) >>
            ELSE << >>
  ELSE << >>

\* one iteration of the loop over latest.host_status
CheckHost(host, ping_time, baselines, threshold) ==
  IF ping_time < 0 THEN << DeviceDown(host) >>
  ELSE IF host \in DOMAIN baselines /\ Flagged(ping_time, baselines[host], threshold)
       THEN << HostAnomalyOf(host, ping_time, baselines[host]) >>
       ELSE << >>

\* the hosts in the order the HashMap iterator yields them
RECURSIVE CheckHostsIn(_, _, _, _)
CheckHostsIn(host_order, latest, baselines, threshold) ==
  IF host_order = << >> THEN << >>
  ELSE CheckHost(Head(host_order), latest.host_status[Head(host_order)], baselines, threshold)
       \o CheckHostsIn(Tail(host_order), latest, baselines, threshold)

\* the addresses in the order the HashSet iterator yields them
ThreatsIn(ioc_order) == [ i \in 1..Len(ioc_order) |-> ThreatIP(ioc_order[i]) ]

\* the orders a HashMap / HashSet iterator may yield the elements of S in
Orders(S) == { o \in [ 1..Cardinality(S) -> S ] : Range(o) = S }

\* lines 310-364: the pass after the cold-start return
DetectBody(history, baselines, feedback, threshold, host_order, ioc_order) ==
  LET latest    == history[Len(history)]
      anomalies == CheckFixedFrom(1, latest, baselines, feedback, threshold)
                   \o CheckHostsIn(host_order, latest, baselines, threshold)
                   \o ThreatsIn(ioc_order)
      has_anom  == anomalies # << >>
  IN  << IF anomalies = << >> THEN << AllNormal >> ELSE anomalies, has_anom >>

\* (a slip: the cold-start return is missing; an empty window has no latest)
detect_anomalies_nocold(history, baselines, feedback, threshold, host_order, ioc_order) ==
  IF Len(history) < 1 THEN << << Learning >>, FALSE >>
  ELSE DetectBody(history, baselines, feedback, threshold, host_order, ioc_order)

\* (a slip: the flag is taken after the placeholder is pushed)
detect_anomalies_lateflag(history, baselines, feedback, threshold, host_order, ioc_order) ==
  IF Len(history) < MinSamples THEN << << Learning >>, FALSE >>
  ELSE LET r == DetectBody(history, baselines, feedback, threshold, host_order, ioc_order)
       IN  << r[1], r[1] # << >> >>

\* detect_anomalies(&self) -> (Vec<String>, bool); host_order and ioc_order are
\* the iteration orders of latest.host_status and of current_iocs
detect_anomalies(history, baselines, feedback, threshold, host_order, ioc_order) ==
  IF Len(history) < MinSamples THEN << << Learning >>, FALSE >>
  ELSE DetectBody(history, baselines, feedback, threshold, host_order, ioc_order)

\* ---------------------------------------------------------- trigger_actions
\* trigger_actions searches the rendered text of each descriptor, so the text
\* is modelled as the sequence of its characters.

\* the characters of the strings the model uses
Text(s) ==
  CASE s = "CPU" -> << "C", "P", "U" >>
    [] s = "RAM" -> << "R", "A", "M" >>
    [] s = "Disk" -> << "D", "i", "s", "k" >>
    [] s = "Temp" -> << "T", "e", "m", "p" >>
    [] s = "Ping" -> << "P", "i", "n", "g" >>
    [] s = "Connections" -> << "C", "o", "n", "n", "e", "c", "t", "i", "o", "n", "s" >>
    [] s = "Failed Login" -> << "F", "a", "i", "l", "e", "d", " ", "L", "o", "g", "i", "n" >>
    [] s = "8.8.8.8" -> << "8", ".", "8", ".", "8", ".", "8" >>
    [] s = "1.1.1.1" -> << "1", ".", "1", ".", "1", ".", "1" >>
    [] s = "203.0.113.7" -> << "2", "0", "3", ".", "0", ".", "1", "1", "3", ".", "7" >>
    [] s = "999.1.1.1" -> << "9", "9", "9", ".", "1", ".", "1", ".", "1" >>
    [] s = "255.255.255.255" -> << "2", "5", "5", ".", "2", "5", "5", ".", "2", "5", "5", ".", "2", "5", "5" >>
    [] s = "256.1.1.1" -> << "2", "5", "6", ".", "1", ".", "1", ".", "1" >>
    [] s = "001.2.3.4" -> << "0", "0", "1", ".", "2", ".", "3", ".", "4" >>
    [] s = "1.2.3" -> << "1", ".", "2", ".", "3" >>
    [] s = "1.2.3.4.5" -> << "1", ".", "2", ".", "3", ".", "4", ".", "5" >>
    [] s = "1.2.3.4." -> << "1", ".", "2", ".", "3", ".", "4", "." >>
    [] s = "1..2.3" -> << "1", ".", ".", "2", ".", "3" >>
    [] s = "10.0.0.1x" -> << "1", "0", ".", "0", ".", "0", ".", "1", "x" >>
    [] s = " 10.0.0.2" -> << " ", "1", "0", ".", "0", ".", "0", ".", "2" >>
    [] s = "evil.example" -> << "e", "v", "i", "l", ".", "e", "x", "a", "m", "p", "l", "e" >>

Digits == << "0", "1", "2", "3", "4", "5", "6", "7", "8", "9" >>

DigitValue(c) == (CHOOSE k \in 1..10 : Digits[k] = c) - 1

\* a natural number in decimal
RECURSIVE Decimal(_)
Decimal(n) == IF n < 10 THEN << Digits[n + 1] >> ELSE Append(Decimal(n \div 10), Digits[(n % 10) + 1])

\* the whole part of the square root
RECURSIVE ISqrt(_)
ISqrt(n) ==
  IF n < 2 THEN n
  ELSE LET r == 2 * ISqrt(n \div 4)
       IN  IF (r + 1) * (r + 1) <= n THEN r + 1 ELSE r

\* {:.1} of n/d (d > 0) and of sqrt(rad)/d: sign, whole part, point and one
\* digit, the tenths being rounded to nearest, ties to even
Fmt1(n, d) ==
  LET a == 10 * Abs(n)
      q == a \div d
      r == a % d
      t == IF 2 * r > d \/ (2 * r = d /\ q % 2 = 1) THEN q + 1 ELSE q
  IN  (IF n < 0 THEN << "-" >> ELSE << >>) \o Decimal(t \div 10) \o << ".", Digits[(t % 10) + 1] >>

Fmt1Root(rad, d) ==
  LET s == ISqrt(400 * rad)
      t == (s + d) \div (2 * d)
      u == IF s * s = 400 * rad /\ (s + d) % (2 * d) = 0 /\ t % 2 = 1 THEN t - 1 ELSE t
  IN  Decimal(u \div 10) \o << ".", Digits[(u % 10) + 1] >>

\* the format! calls of detect_anomalies (lines 307, 332-335, 343, 346-349,
\* 356, 362)
Render(d) ==
  CASE d.kind = "Learning..." -> << "L", "e", "a", "r", "n", "i", "n", "g", ".", ".", "." >>
    [] d.kind = "All Normal"  -> << "A", "l", "l", " ", "N", "o", "r", "m", "a", "l" >>
    [] d.kind = "Device Down" ->
         << "D", "e", "v", "i", "c", "e", " ", "D", "o", "w", "n", ":", " " >> \o Text(d.subject)
    [] d.kind = "Threat IP"   ->
         << "T", "h", "r", "e", "a", "t", " ", "I", "P", ":", " " >> \o Text(d.subject)
    [] d.kind = "Anomaly"     ->
         << "A", "n", "o", "m", "a", "l", "y", ":", " " >> \o Text(d.subject) \o << " " >>
         \o Fmt1(d.value, Scale) \o (IF d.unit = "ms" THEN << "m", "s" >> ELSE << >>)
         \o << " ", "(", "N", "o", "r", "m", "a", "l", ":", " " >>
         \o Fmt1(d.normal.mean_num, d.normal.den * Scale)
         \o << "±" >> \o Fmt1Root(d.normal.std_rad, d.normal.den * Scale) \o << ")" >>

\* str::contains
contains(text, pat) ==
  \E i \in 1..(Len(text) - Len(pat) + 1) : SubSeq(text, i, i + Len(pat) - 1) = pat

\* the length of the longest run of characters of set that starts at from
RunLen(text, from, set) ==
  CHOOSE n \in 0..(Len(text) - from + 1) :
    /\ \A j \in from..(from + n - 1) : text[j] \in set
    /\ from + n <= Len(text) => text[from + n] \notin set

DigitSet == Range(Digits)

\* Regex Tmp:(\d+(?:\.\d+)?) : the first capture group of the leftmost match,
\* as << matched, capture >>
captures_tmp(text) ==
  LET pat == << "T", "m", "p", ":" >>
      at == { i \in 1..(Len(text) - Len(pat)) :
                SubSeq(text, i, i + Len(pat) - 1) = pat /\ text[i + Len(pat)] \in DigitSet }
  IN  IF at = {} THEN << FALSE, << >> >>
      ELSE LET i == CHOOSE x \in at : \A y \in at : x <= y
               b == i + Len(pat)
               w == RunLen(text, b, DigitSet)
               f == IF b + w < Len(text) /\ text[b + w] = "."
                    THEN RunLen(text, b + w + 1, DigitSet) ELSE 0
           IN  << TRUE, SubSeq(text, b, b + w - 1 + (IF f > 0 THEN f + 1 ELSE 0)) >>

\* Regex Threat IP:\s*([\d.]+)
captures_threat(text) ==
  LET pat == << "T", "h", "r", "e", "a", "t", " ", "I", "P", ":" >>
      start(i) == i + Len(pat) + RunLen(text, i + Len(pat), { " " })
      at == { i \in 1..(Len(text) - Len(pat)) :
                /\ SubSeq(text, i, i + Len(pat) - 1) = pat
                /\ start(i) <= Len(text)
                /\ text[start(i)] \in DigitSet \cup { "." } }
  IN  IF at = {} THEN << FALSE, << >> >>
      ELSE LET i == CHOOSE x \in at : \A y \in at : x <= y
               b == start(i)
           IN  << TRUE, SubSeq(text, b, b + RunLen(text, b, DigitSet \cup { "." }) - 1) >>

\* caps[1].parse::<f64>() of digits with an optional fraction, compared with
\* the limit: temp > 80.0
RECURSIVE ParseNat(_)
ParseNat(ds) ==
  IF ds = << >> THEN 0 ELSE 10 * ParseNat(SubSeq(ds, 1, Len(ds) - 1)) + DigitValue(ds[Len(ds)])

ParsedExceeds(cap, limit) ==
  LET w == RunLen(cap, 1, DigitSet)
      whole == ParseNat(SubSeq(cap, 1, w))
  IN  \/ whole > limit
      \/ whole = limit /\ \E j \in (w + 2)..Len(cap) : cap[j] # "0"

\* the parts of text between the dots
RECURSIVE Split(_)
Split(text) ==
  IF "." \notin Range(text) THEN << text >>
  ELSE LET n == RunLen(text, 1, Range(text) \ { "." })
       IN  << SubSeq(text, 1, n) >> \o Split(SubSeq(text, n + 2, Len(text)))

\* 25[0-5]|2[0-4][0-9]|[01]?[0-9][0-9]?
Octet(p) ==
  /\ Len(p) \in 1..3
  /\ \A j \in 1..Len(p) : p[j] \in DigitSet
  /\ Len(p) = 3 =>
       \/ p[1] \in { "0", "1" }
       \/ p[1] = "2" /\ DigitValue(p[2]) <= 4
       \/ p[1] = "2" /\ p[2] = "5" /\ DigitValue(p[3]) <= 5

\* (a slip: an octet is any one to three digits)
is_valid_ip_anydigits(ip) ==
  /\ Len(Split(ip)) = 4
  /\ \A k \in 1..4 : LET p == Split(ip)[k]
                     IN  Len(p) \in 1..3 /\ \A j \in 1..Len(p) : p[j] \in DigitSet

\* is_valid_ip: ^(?:(?:octet)\.){3}(?:octet)$
is_valid_ip(ip) ==
  /\ Len(Split(ip)) = 4
  /\ \A k \in 1..4 : Octet(Split(ip)[k])

\* The OS commands trigger_actions spawns for one descriptor (its text is
\* rendered once, each pattern is searched once).
ActionsFor(d) ==
  The({ The({
    (IF contains(anomaly, << "D", "e", "v", "i", "c", "e", " ", "D", "o", "w", "n" >>)
     THEN << [ cmd |-> "wall", arg |-> << >> ] >> ELSE << >>)
    \o (IF /\ contains(anomaly, << "T", "e", "m", "p" >>)
           /\ tmp[1]
           /\ ParsedExceeds(tmp[2], HighTemp)
        THEN << [ cmd |-> "shutdown", arg |-> << >> ] >> ELSE << >>)
    \o (IF /\ contains(anomaly, << "T", "h", "r", "e", "a", "t", " ", "I", "P", ":" >>)
           /\ ip[1]
           /\ is_valid_ip(ip[2])
        THEN << [ cmd |-> "iptables", arg |-> ip[2] ] >> ELSE << >>)
    : tmp \in { captures_tmp(anomaly) }, ip \in { captures_threat(anomaly) } })
    : anomaly \in { Render(d) } })

RECURSIVE trigger_actions(_)
trigger_actions(list) ==
  IF list = << >> THEN << >>
  ELSE ActionsFor(Head(list)) \o trigger_actions(Tail(list))

\* ------------------------------------------------------------- the store
\* data/baseline.json: absent, or bytes that are not JSON, or a JSON document
\* whose "baseline" and "feedback" members are each absent, a value that is
\* no object ("bad"), or an object ("map", with its members).
EmptyFeedback == [ k \in {} |-> FALSE ]

File(exists, json, bshape, b, fshape, f) ==
  [ exists |-> exists, json |-> json,
    baseline_shape |-> bshape, baseline |-> b,
    feedback_shape |-> fshape, feedback |-> f ]

MissingFile == File(FALSE, FALSE, "absent", EmptyMap, "absent", EmptyFeedback)

\* serde_json::Value: a number, a boolean or an object (its members)
JNumber(x) == [ json |-> "number", v |-> x ]
JBool(x) == [ json |-> "bool", v |-> x ]
JObject(members) == [ json |-> "object", v |-> members ]

\* An f64 written as JSON text and read back is the same f64; a number of the
\* model is its numerator (or radicand) over its denominator.
f64_to_json(num, den) == JNumber(<< num, den >>)
f64_from_json(j) == IF j.json = "number" THEN << TRUE, j.v >> ELSE << FALSE, << 0, 1 >> >>

\* usize: a JSON number that is a whole number and not negative
usize_from_json(j) ==
  IF j.json = "number" /\ j.v[2] = 1 /\ j.v[1] >= 0 THEN << TRUE, j.v[1] >>
  ELSE << FALSE, 0 >>

\* #[derive(Serialize)] BaselineStats
serialize_stats(b) ==
  JObject([ m \in { "mean", "std", "sample_count" } |->
              CASE m = "mean" -> f64_to_json(b.mean_num, b.den)
                [] m = "std"  -> f64_to_json(b.std_rad, b.den)
                [] OTHER      -> f64_to_json(b.sample_count, 1) ])

\* (a slip: std is read from the member "mean")
deserialize_stats_swapped(j) ==
  IF j.json # "object" \/ ~({ "mean", "std", "sample_count" } \subseteq DOMAIN j.v)
  THEN << FALSE, NoStats >>
  ELSE LET mean == f64_from_json(j.v["mean"])
           std  == f64_from_json(j.v["mean"])
           n    == usize_from_json(j.v["sample_count"])
       IN  IF mean[1] /\ std[1] /\ n[1]
           THEN << TRUE, Stats(mean[2][1], std[2][1], mean[2][2], n[2]) >>
           ELSE << FALSE, NoStats >>

\* #[derive(Deserialize)] BaselineStats: Err unless the value is an object
\* whose members mean, std and sample_count have their types
deserialize_stats(j) ==
  IF j.json # "object" \/ ~({ "mean", "std", "sample_count" } \subseteq DOMAIN j.v)
  THEN << FALSE, NoStats >>
  ELSE LET mean == f64_from_json(j.v["mean"])
           std  == f64_from_json(j.v["std"])
           n    == usize_from_json(j.v["sample_count"])
       IN  IF mean[1] /\ std[1] /\ n[1]
           THEN << TRUE, Stats(mean[2][1], std[2][1], mean[2][2], n[2]) >>
           ELSE << FALSE, NoStats >>

\* serde_json::from_value::<HashMap<String, BaselineStats>>: Err as a whole
\* when one member does not deserialize
baselines_from_value(members) ==
  IF \A k \in DOMAIN members : deserialize_stats(members[k])[1]
  THEN << TRUE, [ k \in DOMAIN members |-> deserialize_stats(members[k])[2] ] >>
  ELSE << FALSE, EmptyMap >>

\* serde_json::from_value::<HashMap<String, bool>>
feedback_from_value(members) ==
  IF \A k \in DOMAIN members : members[k].json = "bool"
  THEN << TRUE, [ k \in DOMAIN members |-> members[k].v ] >>
  ELSE << FALSE, EmptyFeedback >>

\* serde_json::json!({"baseline": self.baselines, "feedback": self.feedback})
Document(b, f) ==
  File(TRUE, TRUE, "map", [ k \in DOMAIN b |-> serialize_stats(b[k]) ],
                   "map", [ k \in DOMAIN f |-> JBool(f[k]) ])

\* (a slip: the "feedback" member is not read)
load_baseline_nofeedback(file) ==
  IF ~file.exists \/ ~file.json THEN << EmptyMap, EmptyFeedback >>
  ELSE LET b == CASE file.baseline_shape = "absent" -> << TRUE, EmptyMap >>
                  [] file.baseline_shape = "bad"    -> << FALSE, EmptyMap >>
                  [] OTHER -> baselines_from_value(file.baseline)
       IN  IF ~b[1] THEN << EmptyMap, EmptyFeedback >>
           ELSE << b[2], EmptyFeedback >>

\* load_baseline: the maps the service holds after it, from empty maps.
\* An unreadable file leaves both empty.  `?` returns at the first member
\* that does not deserialize, keeping what was assigned before it.
load_baseline(file) ==
  IF ~file.exists \/ ~file.json THEN << EmptyMap, EmptyFeedback >>
  ELSE LET b == CASE file.baseline_shape = "absent" -> << TRUE, EmptyMap >>
                  [] file.baseline_shape = "bad"    -> << FALSE, EmptyMap >>
                  [] OTHER -> baselines_from_value(file.baseline)
           f == CASE file.feedback_shape = "absent" -> << TRUE, EmptyFeedback >>
                  [] file.feedback_shape = "bad"    -> << FALSE, EmptyFeedback >>
                  [] OTHER -> feedback_from_value(file.feedback)
       IN  IF ~b[1] THEN << EmptyMap, EmptyFeedback >>
           ELSE IF ~f[1] THEN << b[2], EmptyFeedback >>
           ELSE << b[2], f[2] >>

\* save_baseline: the target file after it.  The temporary file is written
\* and renamed over the target; an error in either leaves the target as it was.
save_baseline(file, b, f, outcome) ==
  IF outcome = "ok" THEN Document(b, f) ELSE file

SaveOutcomes == { "ok", "write_error", "rename_error" }

\* ------------------------------------------------------------- update
\* lines 91-95: evict the oldest sample when the window is full, then append
\* (a slip: nothing is evicted, the window grows with every tick)
window_push_keeping(history, size, m) ==
  Append(history, m)

\* (a slip: a full window drops its newest sample, pop_back for pop_front)
window_push_newest_out(history, size, m) ==
  Append(IF Len(history) >= size /\ history # << >>
         THEN SubSeq(history, 1, Len(history) - 1) ELSE history, m)

window_push(history, size, m) ==
  Append(IF Len(history) >= size /\ history # << >> THEN Tail(history) ELSE history, m)

\* ================================================================ the system
VARIABLES
  window_size, anomaly_threshold,                       \* MonitoringConfig
  metrics_history, baselines, feedback, current_iocs,   \* MonitorService
  baseline_file, temp_file,                             \* data/baseline.json, and .tmp
  write_locked, readers,                                \* RwLock<MonitorService>
  pc, anomalies, has_anomaly, issued,                   \* background_monitor_loop
  intel_data, intel_locked, intel_pc,                   \* ThreatIntelService, its lock, its loop
  response,                                             \* what the last call or request returned
  world,                                                \* what the probes of a tick meet outside the process
  sessions, pending, now,                               \* AuthService, logins before their insert, Utc::now()
  returned, revoked,                                    \* tokens logins returned; those of them logged out since
  steps,                                                \* the calls of the running tick
  last_saved,                                           \* the document of the last save that returned Ok
  ticks, changes, refreshes, saves, crashes,            \* counted against the bounds
  logins, advances

vars == << window_size, anomaly_threshold, metrics_history, baselines, feedback,
           current_iocs, baseline_file, temp_file, write_locked, readers, pc, anomalies,
           has_anomaly, issued, intel_data, intel_locked, intel_pc, response, world, steps,
           last_saved, ticks, changes, refreshes, saves, crashes, sessions, pending, now,
           returned, revoked, logins, advances >>

config   == << window_size, anomaly_threshold >>
service  == << metrics_history, baselines, feedback, current_iocs >>
locals   == << anomalies, has_anomaly, issued >>
intel    == << intel_data, intel_locked, intel_pc, refreshes >>
store    == << temp_file, last_saved, saves, crashes >>
auth     == << sessions, pending, now, returned, revoked, logins, advances >>

\* -------------------------------------------------------------- the inputs
Threshold(num, den) == [ num |-> num, den |-> den ]

AllUp == [ h \in HostSet |-> 20 * Scale ]
OneDown == [ h \in HostSet |-> IF h = monitored_hosts[2] THEN Unreachable * Scale ELSE 20 * Scale ]

\* what one probe of the machine can read: a quiet machine, and a busy one
\* (40.5 % RAM, 85 degrees, two failed logins, the second host unreachable)
Calm == Sample(10 * Scale, 40 * Scale, 55 * Scale, 45 * Scale, 12 * Scale, 3 * Scale, 0, AllUp)
Busy == Sample(20 * Scale, (81 * Scale) \div 2, 55 * Scale, 85 * Scale, 12 * Scale,
               3 * Scale, 2 * Scale, OneDown)

Readings == { Calm, Busy }

\* a document an earlier run saved: baselines for cpu and a host, a stale
\* key, and the dismissals "cpu-20" (true) and "temp-85" (false)
SeededBaselines ==
  [ k \in { "cpu", monitored_hosts[1], "10.0.0.9" } |->
      IF k = "cpu" THEN Stats(15 * Scale, (5 * Scale) * (5 * Scale), 1, 20)
      ELSE Stats(20 * Scale, 0, 1, 20) ]

SeededFeedback ==
  [ k \in { << "cpu", 20 >>, << "temp", 85 >> } |-> k = << "cpu", 20 >> ]

SeededFile == Document(SeededBaselines, SeededFeedback)

Files == { MissingFile, SeededFile }

\* a window that holds nothing or one sample, one of exactly the learning
\* threshold, and the default
WindowSizes == { 0, 1, MinSamples, DefaultWindow }

\* addresses an indicator set can hold: one that is valid and one that is not
IocUniverse == { "203.0.113.7", "999.1.1.1" }

Handlers == { "dashboard_page", "api_status", "api_metrics" }

\* readers: the handlers that hold a read guard (one request of each in flight)
NoReaders == {}

Holding == Cardinality(readers)

\* ThreatIntelService::new: the feeds, in the order fetch_all polls them
feeds == << "CISA", "BleepingComputer", "KrebsOnSecurity", "TheHackerNews" >>

\* data: HashMap::new()
NoIntel == [ k \in {} |-> << >> ]

\* main.rs line 31 and the loop before its first fire
IntelIdle ==
  /\ intel_data = NoIntel
  /\ intel_locked = FALSE
  /\ intel_pc = "sleep"
  /\ refreshes = 0

\* no temporary file, nothing saved yet by this model run
StoreIdle ==
  /\ temp_file = MissingFile
  /\ last_saved = MissingFile
  /\ saves = 0
  /\ crashes = 0

\* no request answered yet
NoResponse == << >>

\* the probes are not followed: each tick's sample is drawn as a whole
Quiet == << >>

\* AuthService::new: no session; no login under way
NoSessions == [ t \in {} |-> "" ]

AuthIdle ==
  /\ sessions = NoSessions
  /\ pending = {}
  /\ now = 0
  /\ returned = {}
  /\ revoked = {}
  /\ logins = 0
  /\ advances = 0

\* ------------------------------------------------------------ construction
\* main: AppConfig, then MonitorService::new, which loads the baseline file
Init ==
  /\ window_size \in WindowSizes
  /\ anomaly_threshold = Threshold(DefaultThreshold, 1)
  /\ baseline_file \in Files
  /\ metrics_history = << >>
  /\ baselines = load_baseline(baseline_file)[1]
  /\ feedback = load_baseline(baseline_file)[2]
  /\ current_iocs = {}
  /\ write_locked = FALSE
  /\ readers = NoReaders
  /\ pc = "sleep"
  /\ anomalies = << >>
  /\ has_anomaly = FALSE
  /\ issued = << >>
  /\ steps = << >>
  /\ ticks = 0
  /\ changes = 0
  /\ IntelIdle
  /\ world = Quiet
  /\ AuthIdle
  /\ StoreIdle
  /\ response = NoResponse

\* ------------------------------------------------- tokio::sync::RwLock
\* (a slip: one lock for the monitor and the feed data)
CanWriteShared == ~write_locked /\ Holding = 0 /\ ~intel_locked

\* write(): granted when nobody holds the lock
CanWrite == ~write_locked /\ Holding = 0

\* (a slip: the handler reads without asking the lock)
CanReadUnlocked == TRUE

\* (a slip: a lock that lets readers pass a waiting writer)
CanReadUnfair == ~write_locked

\* read(): granted when no writer holds the lock and none waits for it
\* (the lock is fair: a queued writer goes before later readers)
CanRead == ~write_locked /\ pc # "write"

\* ------------------------------------------------ background_monitor_loop
\* (a slip: the actions run whatever the flag)
AfterDetectAlways(flag) == "trigger_actions"

\* main.rs line 76: if has_anomaly { trigger_actions } ; then save_baseline
AfterDetect(flag) == IF flag THEN "trigger_actions" ELSE "save_baseline"

\* (a slip: every fire of the timer starts a tick, as if each were spawned)
MonitorFireReentrant ==
  /\ ticks < MaxTicks
  /\ pc' = "write"
  /\ ticks' = ticks + 1
  /\ steps' = << >>
  /\ has_anomaly' = FALSE
  /\ UNCHANGED << intel, store, response, config, world, auth, service, baseline_file, write_locked, readers, anomalies,
                  issued, changes >>

\* interval.tick().await returns; monitor.write() is called.  The loop awaits
\* the timer only between two passes of its body.
MonitorFire ==
  /\ pc = "sleep"
  /\ ticks < MaxTicks
  /\ pc' = "write"
  /\ ticks' = ticks + 1
  /\ steps' = << >>
  /\ has_anomaly' = FALSE
  /\ UNCHANGED << intel, store, response, config, world, auth, service, baseline_file, write_locked, readers, anomalies,
                  issued, changes >>

\* monitor.write().await returns the guard
MonitorAcquire ==
  /\ pc = "write"
  /\ CanWrite
  /\ write_locked' = TRUE
  /\ pc' = "update"
  /\ UNCHANGED << intel, store, response, config, world, auth, service, baseline_file, readers, locals, steps, ticks, changes >>

\* monitor_guard.update(): one sample is probed and appended.  The probed
\* machine changes its state at most MaxChanges times in a run.
MonitorUpdate ==
  /\ pc = "update"
  /\ \E m \in Readings :
       LET same == IF metrics_history = << >> THEN TRUE
                   ELSE m = metrics_history[Len(metrics_history)]
       IN  /\ IF same THEN TRUE ELSE changes < MaxChanges
           /\ changes' = IF same THEN changes ELSE changes + 1
           /\ metrics_history' = window_push(metrics_history, window_size, m)
  /\ steps' = Append(steps, "update")
  /\ pc' = "learn_baseline"
  /\ UNCHANGED << intel, store, response, config, world, auth, baselines, feedback, current_iocs, baseline_file,
                  write_locked, readers, locals, ticks >>

\* monitor_guard.learn_baseline()
MonitorLearn ==
  /\ pc = "learn_baseline"
  /\ baselines' = learn_baseline(metrics_history, baselines)
  /\ steps' = Append(steps, "learn_baseline")
  /\ pc' = "detect_anomalies"
  /\ UNCHANGED << intel, store, response, config, world, auth, metrics_history, feedback, current_iocs, baseline_file,
                  write_locked, readers, locals, ticks, changes >>

LatestHosts ==
  IF metrics_history = << >> THEN {}
  ELSE DOMAIN metrics_history[Len(metrics_history)].host_status

\* let (anomalies, has_anomaly) = monitor_guard.detect_anomalies()
MonitorDetect ==
  /\ pc = "detect_anomalies"
  /\ \E ho \in Orders(LatestHosts), io \in Orders(current_iocs) :
       LET r == detect_anomalies(metrics_history, baselines, feedback,
                                 anomaly_threshold, ho, io)
       IN  /\ anomalies' = r[1]
           /\ has_anomaly' = r[2]
           /\ pc' = AfterDetect(r[2])
  /\ steps' = Append(steps, "detect_anomalies")
  /\ UNCHANGED << intel, store, response, config, world, auth, service, baseline_file, write_locked, readers, issued,
                  ticks, changes >>

\* monitor_guard.trigger_actions(&anomalies): always Ok
MonitorAct ==
  /\ pc = "trigger_actions"
  /\ issued' = trigger_actions(anomalies)
  /\ steps' = Append(steps, "trigger_actions")
  /\ pc' = "save_baseline"
  /\ UNCHANGED << intel, store, response, config, world, auth, service, baseline_file, write_locked, readers, anomalies,
                  has_anomaly, ticks, changes >>

\* monitor_guard.save_baseline(): an error is logged and the loop goes on
MonitorSave ==
  /\ pc = "save_baseline"
  /\ \E outcome \in SaveOutcomes :
       baseline_file' = save_baseline(baseline_file, baselines, feedback, outcome)
  /\ steps' = Append(steps, "save_baseline")
  /\ pc' = "drop"
  /\ UNCHANGED << intel, store, response, config, world, auth, service, write_locked, readers, locals, ticks, changes >>

\* drop(monitor_guard); the descriptor list goes out of scope.  steps and the
\* flag of the tick stay readable until the next fire clears them.
MonitorDrop ==
  /\ pc = "drop"
  /\ write_locked' = FALSE
  /\ pc' = "sleep"
  /\ anomalies' = << >>
  /\ issued' = << >>
  /\ UNCHANGED << intel, store, response, config, world, auth, service, baseline_file, readers, has_anomaly, steps,
                  ticks, changes >>

\* ------------------------------------------------------------- the handlers
\* state.monitor.read().await returns the guard to handler h
HandlerEnter(h) ==
  /\ CanRead
  /\ h \notin readers
  /\ readers' = readers \cup {h}
  /\ UNCHANGED << intel, store, response, config, world, auth, service, baseline_file, write_locked, pc, locals, steps,
                  ticks, changes >>

\* the handler's body under the guard (detect_anomalies, status_report and
\* get_metrics_history take &self) and the drop of the guard
HandlerLeave(h) ==
  /\ h \in readers
  /\ readers' = readers \ {h}
  /\ UNCHANGED << intel, store, response, config, world, auth, service, baseline_file, write_locked, pc, locals, steps,
                  ticks, changes >>

dashboard_page == HandlerEnter("dashboard_page") \/ HandlerLeave("dashboard_page")
api_status == HandlerEnter("api_status") \/ HandlerLeave("api_status")
api_metrics == HandlerEnter("api_metrics") \/ HandlerLeave("api_metrics")

Next ==
  \/ MonitorFire
  \/ MonitorAcquire
  \/ MonitorUpdate
  \/ MonitorLearn
  \/ MonitorDetect
  \/ MonitorAct
  \/ MonitorSave
  \/ MonitorDrop
  \/ dashboard_page
  \/ api_status
  \/ api_metrics

Spec == Init /\ [][Next]_vars

\* ============================================ the threat-intelligence loop
\* models/metrics.rs ThreatIntel (published is not read anywhere)
ThreatIntel(source, title, url) == [ source |-> source, title |-> title, url |-> url ]

\* what a feed answers: an error (send, text or RSS parsing), or a channel,
\* given by the titles of its items
FeedReply(ok, titles) == [ ok |-> ok, titles |-> titles ]

FeedReplies == { FeedReply(FALSE, << >>), FeedReply(TRUE, << "203.0.113.7" >>) }

\* iter().take(n)
Take(s, n) == SubSeq(s, 1, IF Len(s) < n THEN Len(s) ELSE n)

\* fetch_feed: Err, or the first five items of the channel
fetch_feed(name, reply) ==
  IF ~reply.ok THEN << FALSE, << >> >>
  ELSE << TRUE, [ i \in 1..Len(Take(reply.titles, 5)) |->
                    ThreatIntel(name, reply.titles[i], "#") ] >>

\* the loop of fetch_all over self.feeds: a feed that fails keeps its old items
RECURSIVE FetchFrom(_, _, _)
FetchFrom(data, k, replies) ==
  IF k > Len(feeds) THEN data
  ELSE LET r == fetch_feed(feeds[k], replies[k])
       IN  FetchFrom(IF r[1] THEN Insert(data, feeds[k], r[2]) ELSE data, k + 1, replies)

\* fetch_all: Err before any feed is polled when the client cannot be built
fetch_all(data, client_ok, replies) ==
  IF ~client_ok THEN data ELSE FetchFrom(data, 1, replies)

\* what threat_intel_refresh_loop leaves alone
monitor_side == << config, world, auth, service, baseline_file, store, response, write_locked,
                   readers, pc, locals, steps, ticks, changes >>

\* interval.tick().await returns; threat_intel.write() is called
IntelFire ==
  /\ intel_pc = "sleep"
  /\ refreshes < MaxRefreshes
  /\ intel_pc' = "write"
  /\ refreshes' = refreshes + 1
  /\ UNCHANGED << monitor_side, intel_data, intel_locked >>

\* threat_intel.write().await returns the guard (nobody else takes this lock)
IntelAcquire ==
  /\ intel_pc = "write"
  /\ ~intel_locked
  /\ intel_locked' = TRUE
  /\ intel_pc' = "fetch_all"
  /\ UNCHANGED << monitor_side, intel_data, refreshes >>

\* (a slip that is none in the source: the addresses the feeds name are
\* merged into the indicator set of the monitor)
IntelFetchMerging ==
  /\ intel_pc = "fetch_all"
  /\ \E client_ok \in BOOLEAN, replies \in [ 1..Len(feeds) -> FeedReplies ] :
       intel_data' = fetch_all(intel_data, client_ok, replies)
  /\ current_iocs' = current_iocs \cup
       UNION { { intel_data'[f][i].title : i \in DOMAIN intel_data'[f] } :
                 f \in DOMAIN intel_data' }
  /\ intel_pc' = "drop"
  /\ UNCHANGED << config, world, auth, metrics_history, baselines, feedback, baseline_file, store,
                  response, write_locked, readers, pc, locals, steps, ticks, changes,
                  intel_locked, refreshes >>

\* intel_guard.fetch_all().await: Ok or Err, both only logged
IntelFetch ==
  /\ intel_pc = "fetch_all"
  /\ \E client_ok \in BOOLEAN, replies \in [ 1..Len(feeds) -> FeedReplies ] :
       intel_data' = fetch_all(intel_data, client_ok, replies)
  /\ intel_pc' = "drop"
  /\ UNCHANGED << monitor_side, intel_locked, refreshes >>

\* drop(intel_guard)
IntelDrop ==
  /\ intel_pc = "drop"
  /\ intel_locked' = FALSE
  /\ intel_pc' = "sleep"
  /\ UNCHANGED << monitor_side, intel_data, refreshes >>

\* ------------------------------------------------ both loops and the handlers
\* The process nineteen ticks after it started with no baseline file and
\* window_size 20: the window holds nineteen samples, nothing was learned or
\* detected yet, every save failed, and the feed timer has not fired.
Warm ==
  { [ i \in 1..(MinSamples - 1) |-> Calm ],
    [ i \in 1..(MinSamples - 1) |-> IF i <= 10 THEN Calm ELSE Busy ] }

InitLoops ==
  /\ window_size = MinSamples
  /\ anomaly_threshold = Threshold(DefaultThreshold, 1)
  /\ baseline_file = MissingFile
  /\ metrics_history \in Warm
  /\ baselines = EmptyMap
  /\ feedback = EmptyFeedback
  /\ current_iocs = {}
  /\ write_locked = FALSE
  /\ readers = NoReaders
  /\ pc = "sleep"
  /\ anomalies = << >>
  /\ has_anomaly = FALSE
  /\ issued = << >>
  /\ steps = << "update", "learn_baseline", "detect_anomalies", "save_baseline" >>
  /\ ticks = MinSamples - 1
  /\ changes = IF metrics_history[1] = metrics_history[MinSamples - 1] THEN 0 ELSE 1
  /\ IntelIdle
  /\ world = Quiet
  /\ AuthIdle
  /\ StoreIdle
  /\ response = NoResponse

NextLoops ==
  \/ MonitorFire
  \/ MonitorAcquire
  \/ MonitorUpdate
  \/ MonitorLearn
  \/ MonitorDetect
  \/ MonitorAct
  \/ MonitorSave
  \/ MonitorDrop
  \/ dashboard_page
  \/ api_status
  \/ api_metrics
  \/ IntelFire
  \/ IntelAcquire
  \/ IntelFetch
  \/ IntelDrop

\* the steps of each spawned task (a task stands at one of them at a time)
background_monitor_loop ==
  \/ MonitorFire \/ MonitorAcquire \/ MonitorUpdate \/ MonitorLearn
  \/ MonitorDetect \/ MonitorAct \/ MonitorSave \/ MonitorDrop

threat_intel_refresh_loop == IntelFire \/ IntelAcquire \/ IntelFetch \/ IntelDrop

\* The tokio runtime polls every ready task, every timer fires, every external
\* call returns and every handler that holds a guard finishes; how often
\* requests arrive is not constrained.
FairLoops ==
  /\ WF_vars(background_monitor_loop)
  /\ WF_vars(threat_intel_refresh_loop)
  /\ \A h \in Handlers : WF_vars(HandlerLeave(h))

SpecLoops == InitLoops /\ [][NextLoops]_vars

\* The same process one tick later, after a run of ten quiet and ten busy
\* samples: the window is full, the baselines are those learned from it, the
\* twentieth tick found the second host down and ran the actions.
TenQuietTenBusy == [ i \in 1..MinSamples |-> IF i <= 10 THEN Calm ELSE Busy ]

InitLive ==
  /\ window_size = MinSamples
  /\ anomaly_threshold = Threshold(DefaultThreshold, 1)
  /\ baseline_file = MissingFile
  /\ metrics_history = TenQuietTenBusy
  /\ baselines = learn_baseline(TenQuietTenBusy, EmptyMap)
  /\ feedback = EmptyFeedback
  /\ current_iocs = {}
  /\ write_locked = FALSE
  /\ readers = NoReaders
  /\ pc = "sleep"
  /\ anomalies = << >>
  /\ has_anomaly = TRUE
  /\ issued = << >>
  /\ steps = << "update", "learn_baseline", "detect_anomalies", "trigger_actions",
                "save_baseline" >>
  /\ ticks = MinSamples
  /\ changes = 1
  /\ IntelIdle
  /\ world = Quiet
  /\ AuthIdle
  /\ StoreIdle
  /\ response = NoResponse

SpecLive == InitLive /\ [][NextLoops]_vars /\ FairLoops

\* ============================================== detect_anomalies on its inputs
\* detect_anomalies reads the length of the window, its newest sample, the
\* baselines, the feedback map, the indicator set and the threshold.  SpecDetect
\* draws each of them and calls it once.
DetectLens == { 0, 1, MinSamples - 1, MinSamples, MinSamples + 1 }

\* 20, 30, 49.5, 50, 50.5 and 51 percent
DetectCpu == { 20 * Scale, 30 * Scale, (99 * Scale) \div 2, 50 * Scale,
               (101 * Scale) \div 2, 51 * Scale }

DetectTemp == { 45 * Scale, 85 * Scale }

Slow == [ h \in HostSet |-> IF h = monitored_hosts[1] THEN 80 * Scale ELSE 20 * Scale ]

DetectHosts == { AllUp, OneDown, Slow }

DetectSamples ==
  { Sample(c, 40 * Scale, 55 * Scale, t, 12 * Scale, 3 * Scale, 0, hs) :
      c \in DetectCpu, t \in DetectTemp, hs \in DetectHosts }

\* mean and std given in whole units
Whole(mean, std, n) == Stats(mean * Scale, (std * Scale) * (std * Scale), 1, n)

FullBaselines ==
  [ k \in Range(FixedSignals) \cup HostSet |->
      CASE k = "cpu"  -> Whole(15, 5, 20)
        [] k = "ram"  -> Whole(40, 1, 20)
        [] k = "disk" -> Whole(55, 1, 20)
        [] k = "temp" -> Whole(45, 2, 20)
        [] k = "ping" -> Whole(12, 1, 20)
        [] k = "net"  -> Whole(3, 1, 20)
        [] k = "fail" -> Whole(0, 1, 20)
        [] OTHER      -> Whole(20, 5, 20) ]

FlatBaselines ==
  [ k \in Range(FixedSignals) \cup HostSet |-> Whole(20, 0, 20) ]

DetectBaselines == { EmptyMap, SeededBaselines, FullBaselines, FlatBaselines }

DetectFeedbacks ==
  { EmptyFeedback,
    [ k \in { << "cpu", 50 >>, << "temp", 85 >> } |-> k = << "cpu", 50 >> ],
    [ k \in { << "cpu", 50 >>, << monitored_hosts[1], 80 >> } |-> k # << "cpu", 50 >> ] }

DetectThresholds == { Threshold(DefaultThreshold, 1), Threshold(5, 2), Threshold(0, 1),
                      Threshold(-1, 1) }

InitDetect ==
  /\ window_size = DefaultWindow
  /\ anomaly_threshold \in DetectThresholds
  /\ baseline_file = MissingFile
  /\ \E n \in DetectLens, m \in DetectSamples :
       metrics_history = [ i \in 1..n |-> IF i = n THEN m ELSE Calm ]
  /\ baselines \in DetectBaselines
  /\ feedback \in DetectFeedbacks
  /\ current_iocs \in SUBSET IocUniverse
  /\ write_locked = FALSE
  /\ readers = NoReaders
  /\ pc = "call"
  /\ anomalies = << >>
  /\ has_anomaly = FALSE
  /\ issued = << >>
  /\ steps = << >>
  /\ ticks = 0
  /\ changes = 0
  /\ IntelIdle
  /\ world = Quiet
  /\ AuthIdle
  /\ StoreIdle
  /\ response = NoResponse

DetectCall ==
  /\ pc = "call"
  /\ \E ho \in Orders(LatestHosts), io \in Orders(current_iocs) :
       LET r == detect_anomalies(metrics_history, baselines, feedback,
                                 anomaly_threshold, ho, io)
       IN  /\ anomalies' = r[1]
           /\ has_anomaly' = r[2]
  /\ pc' = "returned"
  /\ UNCHANGED << intel, store, response, config, world, auth, service, baseline_file, write_locked, readers, issued,
                  steps, ticks, changes >>

NextDetect == DetectCall

SpecDetect == InitDetect /\ [][NextDetect]_vars

\* =================================================== the store across crashes
\* save_baseline step by step, the process dying at any of them, and the next
\* process constructing its MonitorService from what is on disk.

\* bytes that are no JSON document: garbage, or the beginning of a document
NotJson == File(TRUE, FALSE, "absent", EmptyMap, "absent", EmptyFeedback)

\* documents whose members have the wrong type
BadBaseline ==
  File(TRUE, TRUE, "bad", EmptyMap, "map", Document(EmptyMap, SeededFeedback).feedback)

BadFeedback ==
  File(TRUE, TRUE, "map", Document(SeededBaselines, EmptyFeedback).baseline,
                   "bad", EmptyFeedback)

\* "feedback": {"cpu-20": {}} (an object where a boolean is expected)
BadFlag ==
  File(TRUE, TRUE, "map", Document(SeededBaselines, EmptyFeedback).baseline,
                   "map", [ k \in { << "cpu", 20 >> } |-> JObject(<< >>) ])

\* "baseline": {"cpu": {"mean": 30.0}} (std and sample_count are missing)
BadStats ==
  File(TRUE, TRUE, "map", [ k \in { "cpu" } |->
                             JObject([ m \in { "mean" } |-> f64_to_json(30 * Scale, 1) ]) ],
                   "map", Document(EmptyMap, SeededFeedback).feedback)

StoreFiles == { MissingFile, NotJson, BadBaseline, BadFeedback, BadFlag, BadStats, SeededFile }

\* windows a run of ticks can leave: one sample short of learning, and full
StoreWindows == { [ i \in 1..MinSamples - 1 |-> IF i <= 10 THEN Calm ELSE Busy ],
                  TenQuietTenBusy, [ i \in 1..MinSamples |-> Calm ] }

\* (a slip: the document is written over the target itself)
fs_write_in_place(target, temp, content) == << content, temp >>

\* fs::write(&temp_file, content): the target and the temporary file after it
fs_write(target, temp, content) == << target, content >>

\* fs::rename(&temp_file, BASELINE_FILE): the target is replaced in one step
fs_rename(target, temp) == << temp, MissingFile >>

InitStore ==
  /\ window_size = MinSamples
  /\ anomaly_threshold = Threshold(DefaultThreshold, 1)
  /\ baseline_file \in StoreFiles
  /\ temp_file \in { MissingFile, NotJson }
  /\ metrics_history = << >>
  /\ baselines = load_baseline(baseline_file)[1]
  /\ feedback = load_baseline(baseline_file)[2]
  /\ current_iocs = {}
  /\ write_locked = FALSE
  /\ readers = NoReaders
  /\ pc = "sleep"
  /\ anomalies = << >>
  /\ has_anomaly = FALSE
  /\ issued = << >>
  /\ steps = << "new" >>
  /\ last_saved = IF baseline_file = SeededFile THEN SeededFile ELSE MissingFile
  /\ ticks = 0
  /\ changes = 0
  /\ saves = 0
  /\ crashes = 0
  /\ IntelIdle
  /\ world = Quiet
  /\ AuthIdle
  /\ response = NoResponse

store_side == << config, world, auth, current_iocs, readers, locals, intel, response, ticks, changes >>

\* ticks fill the window (it never shrinks) and learn_baseline is called
StoreLearn ==
  /\ pc = "sleep"
  /\ \E w \in StoreWindows :
       /\ Len(w) >= Len(metrics_history)
       /\ metrics_history' = w
       /\ baselines' = learn_baseline(w, baselines)
  /\ steps' = << "learn_baseline" >>
  /\ UNCHANGED << store_side, feedback, baseline_file, store, pc, write_locked >>

\* a tick, holding the write guard, calls save_baseline: file_lock,
\* create_dir_all, json!
SaveEnter ==
  /\ pc = "sleep"
  /\ saves < MaxSaves
  /\ saves' = saves + 1
  /\ write_locked' = TRUE
  /\ pc' = "fs::write"
  /\ steps' = << "save_baseline" >>
  /\ UNCHANGED << store_side, service, baseline_file, temp_file, last_saved, crashes >>

\* fs::write(&temp_file, ...).await?: Ok, or Err with nothing or a part written
SaveWrite ==
  /\ pc = "fs::write"
  /\ \E ok \in BOOLEAN, content \in { temp_file, NotJson } :
       LET r == fs_write(baseline_file, temp_file,
                         IF ok THEN Document(baselines, feedback) ELSE content)
       IN  /\ baseline_file' = r[1]
           /\ temp_file' = r[2]
           /\ pc' = IF ok THEN "fs::rename" ELSE "drop"
           /\ steps' = IF ok THEN steps ELSE << "save_baseline", "Err" >>
  /\ UNCHANGED << store_side, service, last_saved, saves, crashes, write_locked >>

\* fs::rename(&temp_file, BASELINE_FILE).await?; Ok(())
SaveRename ==
  /\ pc = "fs::rename"
  /\ \E ok \in BOOLEAN :
       LET r == IF ok THEN fs_rename(baseline_file, temp_file)
                ELSE << baseline_file, temp_file >>
       IN  /\ baseline_file' = r[1]
           /\ temp_file' = r[2]
           /\ last_saved' = IF ok THEN temp_file ELSE last_saved
           /\ steps' = << "save_baseline", IF ok THEN "Ok" ELSE "Err" >>
  /\ pc' = "drop"
  /\ UNCHANGED << store_side, service, saves, crashes, write_locked >>

\* (a slip: the guard is released only after a save that returned Ok)
StoreDropOnOk ==
  /\ pc = "drop"
  /\ steps = << "save_baseline", "Ok" >>
  /\ write_locked' = FALSE
  /\ pc' = "sleep"
  /\ UNCHANGED << store_side, service, baseline_file, store, steps >>

\* main.rs 84-89: an Err of save_baseline is logged, then drop(monitor_guard)
StoreDrop ==
  /\ pc = "drop"
  /\ write_locked' = FALSE
  /\ pc' = "sleep"
  /\ UNCHANGED << store_side, service, baseline_file, store, steps >>

\* The process dies.  Inside fs::write the temporary file is as it was, partly
\* written or written; inside fs::rename the rename has happened or not.
StoreCrash ==
  /\ pc \in { "sleep", "fs::write", "fs::rename", "drop" }
  /\ crashes < MaxCrashes
  /\ crashes' = crashes + 1
  /\ \E content \in { temp_file, NotJson, Document(baselines, feedback) }, renamed \in BOOLEAN :
       LET r == IF pc = "fs::write" THEN fs_write(baseline_file, temp_file, content)
                ELSE IF pc = "fs::rename" /\ renamed THEN fs_rename(baseline_file, temp_file)
                ELSE << baseline_file, temp_file >>
       IN  /\ baseline_file' = r[1]
           /\ temp_file' = r[2]
  /\ pc' = "crashed"
  /\ write_locked' = FALSE
  /\ metrics_history' = << >>
  /\ baselines' = EmptyMap
  /\ feedback' = EmptyFeedback
  /\ steps' = << >>
  /\ UNCHANGED << store_side, last_saved, saves >>

\* the next process: MonitorService::new loads what is on disk
StoreRestart ==
  /\ pc = "crashed"
  /\ baselines' = load_baseline(baseline_file)[1]
  /\ feedback' = load_baseline(baseline_file)[2]
  /\ pc' = "sleep"
  /\ steps' = << "new" >>
  /\ UNCHANGED << store_side, metrics_history, baseline_file, store, write_locked >>

NextStore ==
  \/ StoreLearn
  \/ SaveEnter
  \/ SaveWrite
  \/ SaveRename
  \/ StoreDrop
  \/ StoreCrash
  \/ StoreRestart

SpecStore == InitStore /\ [][NextStore]_vars

\* =============================================== trigger_actions on its inputs
\* trigger_actions reads the descriptors detect_anomalies returned with the
\* flag true.  SpecActions draws such a list and calls it once.
ActionIocs ==
  { "203.0.113.7", "999.1.1.1", "255.255.255.255", "256.1.1.1", "001.2.3.4", "1.2.3",
    "1.2.3.4.5", "1.2.3.4.", "1..2.3", "10.0.0.1x", " 10.0.0.2", "evil.example" }

\* 79.5, 80, 80.5, 81 and 85 degrees
ActionTemps == { (159 * Scale) \div 2, 80 * Scale, (161 * Scale) \div 2, 81 * Scale, 85 * Scale }

ActionDescriptors ==
  { AnomalyOf("Temp", t, Whole(45, 2, 20)) : t \in ActionTemps }
    \cup { AnomalyOf("CPU", 85 * Scale, Whole(15, 5, 20)),
           HostAnomalyOf(monitored_hosts[1], 85 * Scale, Whole(20, 5, 20)),
           DeviceDown(monitored_hosts[2]) }
    \cup { ThreatIP(ip) : ip \in ActionIocs }

InitActions ==
  /\ window_size = DefaultWindow
  /\ anomaly_threshold = Threshold(DefaultThreshold, 1)
  /\ baseline_file = MissingFile
  /\ metrics_history = << >>
  /\ baselines = EmptyMap
  /\ feedback = EmptyFeedback
  /\ current_iocs = {}
  /\ write_locked = FALSE
  /\ readers = NoReaders
  /\ pc = "call"
  /\ \E n \in 1..2 : anomalies \in [ 1..n -> ActionDescriptors ]
  /\ has_anomaly = TRUE
  /\ issued = << >>
  /\ steps = << >>
  /\ ticks = 0
  /\ changes = 0
  /\ IntelIdle
  /\ world = Quiet
  /\ AuthIdle
  /\ StoreIdle
  /\ response = NoResponse

ActionsCall ==
  /\ pc = "call"
  /\ issued' = trigger_actions(anomalies)
  /\ pc' = "returned"
  /\ UNCHANGED << intel, store, response, config, world, auth, service, baseline_file, write_locked,
                  readers, anomalies, has_anomaly, steps, ticks, changes >>

NextActions == ActionsCall

SpecActions == InitActions /\ [][NextActions]_vars

\* ================================================= api_metrics on its inputs
\* The n-th sample ever probed, told from every other by its connection count.
\* the sample of the n-th update: every third one finds the gateway
\* unreachable, every second one a monitored host (the sentinel of tcp_ping)
Probe(n) ==
  Sample(10 * Scale, 40 * Scale, 55 * Scale, 45 * Scale,
         IF n % 3 = 0 THEN Unreachable * Scale ELSE 12 * Scale, n, 0,
         IF n % 2 = 0 THEN OneDown ELSE AllUp)

\* Query<MetricsQuery>: limit is None (no tuple) or Some(n)
NoLimit == << >>

Limits == { NoLimit, << 0 >>, << 1 >>, << 2 >>, << DefaultLimit + 1 >>, << 2 * DefaultLimit >> }

\* iter().rev()
Rev(s) == [ i \in 1..Len(s) |-> s[Len(s) - i + 1] ]

\* (a slip: the window is read oldest first)
MetricsJsonOldestFirst(history, limit) ==
  LET metrics == Take(history, IF limit = NoLimit THEN DefaultLimit ELSE limit[1])
  IN  [ metrics |-> metrics, count |-> Len(metrics), limit |-> limit ]

\* lines 338-344: limit.unwrap_or(60), history.iter().rev().take(limit), and
\* the JSON body; the request's limit is kept beside it
MetricsJson(history, limit) ==
  LET metrics == Take(Rev(history), IF limit = NoLimit THEN DefaultLimit ELSE limit[1])
  IN  [ metrics |-> metrics, count |-> Len(metrics), limit |-> limit ]

InitMetrics ==
  /\ window_size \in { 0, 1, 3, DefaultWindow, DefaultWindow + 2 }
  /\ anomaly_threshold = Threshold(DefaultThreshold, 1)
  /\ baseline_file = MissingFile
  /\ metrics_history = << >>
  /\ baselines = EmptyMap
  /\ feedback = EmptyFeedback
  /\ current_iocs = {}
  /\ write_locked = FALSE
  /\ readers = NoReaders
  /\ pc = "sleep"
  /\ anomalies = << >>
  /\ has_anomaly = FALSE
  /\ issued = << >>
  /\ steps = << >>
  /\ ticks = 0
  /\ changes = 0
  /\ IntelIdle
  /\ world = Quiet
  /\ AuthIdle
  /\ StoreIdle
  /\ response = NoResponse

\* a tick appends its sample and update returns Ok(()) (lines 91-97: no
\* statement of update can return early); an earlier response is gone
MetricsPush ==
  /\ ticks < MaxPushes
  /\ ticks' = ticks + 1
  /\ metrics_history' = window_push(metrics_history, window_size, Probe(ticks + 1))
  /\ steps' = << "update", "Ok" >>
  /\ response' = NoResponse
  /\ UNCHANGED << intel, store, config, world, auth, baselines, feedback, current_iocs, baseline_file,
                  write_locked, readers, pc, locals, changes >>

\* GET /api/metrics[?limit=n], answered under the read guard
MetricsGet ==
  /\ \E limit \in Limits : response' = MetricsJson(metrics_history, limit)
  /\ UNCHANGED << intel, store, config, world, auth, service, baseline_file, write_locked, readers, pc,
                  locals, steps, ticks, changes >>

NextMetrics == MetricsPush \/ MetricsGet

SpecMetrics == InitMetrics /\ [][NextMetrics]_vars

\* ------------------------------------------------ the queries of the handlers
\* status_report(&self): the clock line left out, the numbers it prints
status_report(history) ==
  IF history = << >> THEN << "No data available" >>
  ELSE LET latest == history[Len(history)]
       IN  << [ CPU |-> latest.cpu_percent, RAM |-> latest.ram_percent ],
              [ Disk |-> latest.disk_percent, Tmp |-> latest.temperature ],
              [ Ping |-> latest.ping_ms, Net |-> latest.net_connections ],
              [ Fails |-> latest.failed_logins ] >>

\* get_metrics_history(&self) -> &VecDeque<SystemMetrics>
get_metrics_history(history) == history

\* what a handler computes under its read guard: dashboard_page (lines
\* 157-173), api_status (314-323), api_metrics (335-344, without a limit)
QueryBody(h, history, detected) ==
  CASE h = "dashboard_page" ->
         [ anomalies |-> detected[1], has_anomaly |-> detected[2],
           status |-> status_report(history),
           graphs |-> [ k \in Range(FixedSignals) |->
                          Column(get_metrics_history(history), k) ] ]
    [] h = "api_status" ->
         [ status |-> status_report(history),
           anomalies |-> detected[1], has_anomaly |-> detected[2] ]
    [] h = "api_metrics" -> MetricsJson(get_metrics_history(history), NoLimit)

\* (a slip: the handler runs the remedial actions for what it detected)
QueryLeaveActing(h) ==
  /\ h \in readers
  /\ \E ho \in Orders(LatestHosts), io \in Orders(current_iocs) :
       LET detected == detect_anomalies(metrics_history, baselines, feedback,
                                        anomaly_threshold, ho, io)
       IN  /\ response' = QueryBody(h, metrics_history, detected)
           /\ issued' = IF h # "api_metrics" /\ detected[2]
                         THEN trigger_actions(detected[1]) ELSE issued
  /\ readers' = readers \ {h}
  /\ UNCHANGED << intel, store, config, world, auth, service, baseline_file, write_locked, pc, anomalies,
                  has_anomaly, steps, ticks, changes >>

\* the handler's body under the read guard, then the guard is dropped
QueryLeave(h) ==
  /\ h \in readers
  /\ \E ho \in Orders(LatestHosts), io \in Orders(current_iocs) :
       response' = QueryBody(h, metrics_history,
                             detect_anomalies(metrics_history, baselines, feedback,
                                              anomaly_threshold, ho, io))
  /\ readers' = readers \ {h}
  /\ UNCHANGED << intel, store, config, world, auth, service, baseline_file, write_locked, pc, locals,
                  steps, ticks, changes >>

NextQueries ==
  \/ background_monitor_loop
  \/ \E h \in Handlers : HandlerEnter(h)
  \/ \E h \in Handlers : QueryLeave(h)

SpecQueries == InitLoops /\ [][NextQueries]_vars

\* ------------------------------------------------ the probes of update
\* An f64 read from a text or from the clock, kept as num / den.
Ratio(num, den) == [ num |-> num, den |-> den ]

Same(a, b) == a.num * b.den = b.num * a.den

RECURSIVE Pow10(_)
Pow10(n) == IF n = 0 THEN 1 ELSE 10 * Pow10(n - 1)

\* str::parse::<f64> of a run of digits and dots, as << is_ok, value >>: Ok
\* for one or more digits with at most one dot among them
parse_f64(str) ==
  LET dots   == { i \in 1..Len(str) : str[i] = "." }
      digits == SelectSeq(str, LAMBDA c : c \in DigitSet)
  IN  IF Cardinality(dots) > 1 \/ digits = << >> THEN << FALSE, Ratio(0, 1) >>
      ELSE << TRUE, Ratio(ParseNat(digits),
                          IF dots = {} THEN 1
                          ELSE Pow10(Len(str) - (CHOOSE i \in dots : TRUE))) >>

\* str::find: the index of the first occurrence, 0 for None
find(text, pat) ==
  LET at == { i \in 1..(Len(text) - Len(pat) + 1) : SubSeq(text, i, i + Len(pat) - 1) = pat }
  IN  IF at = {} THEN 0 ELSE CHOOSE i \in at : \A j \in at : i <= j

TimeEq ==
  << "t", "i", "m", "e", "=" >>

\* parse_ping_time(output: &str) -> Option<f64>, as << is_some, value >>;
\* output is the sequence of its lines
RECURSIVE parse_ping_time(_)
parse_ping_time(output) ==
  IF output = << >> THEN << FALSE, Ratio(0, 1) >>
  ELSE LET line     == Head(output)
           pos      == find(line, TimeEq)
           from     == pos + Len(TimeEq)
           time_str == SubSeq(line, from, from + RunLen(line, from, DigitSet \cup { "." }) - 1)
           parsed   == IF pos = 0 THEN << FALSE, Ratio(0, 1) >> ELSE parse_f64(time_str)
       IN  IF parsed[1] THEN parsed ELSE parse_ping_time(Tail(output))

TcpTimeout == 2

Placeholder == 50

\* tokio::time::timeout(duration, future): the future's output when it
\* completes before the duration has passed, Err(Elapsed) otherwise
timeout(secs, future) ==
  IF future.returns /\ future.after_ms < secs * 1000 THEN << "Ok", future.output >>
  ELSE << "Err", "Elapsed" >>

\* what a probe returns, and the external calls it made for it
Probing(value, calls) == [ value |-> value, calls |-> calls ]

\* (a slip: no DNS lookup after a failed connect)
tcp_ping_nodns(tcp, dns) ==
  IF timeout(TcpTimeout, tcp) = << "Ok", "Ok" >>
  THEN Probing(Ratio(tcp.after_ms, 1), << "TcpStream::connect" >>)
  ELSE Probing(Ratio(Unreachable, 1), << "TcpStream::connect" >>)

\* tcp_ping(&self, host) -> f64
tcp_ping(tcp, dns) ==
  IF timeout(TcpTimeout, tcp) = << "Ok", "Ok" >>
  THEN Probing(Ratio(tcp.after_ms, 1), << "TcpStream::connect" >>)
  ELSE Probing(IF dns = "Ok" THEN Ratio(Placeholder, 1) ELSE Ratio(Unreachable, 1),
               << "TcpStream::connect", "lookup_host" >>)

\* ping_host(&self, host) -> f64
ping_host(icmp, tcp, dns) ==
  LET time_ms == IF icmp.spawn = "Ok" /\ icmp.success
                 THEN parse_ping_time(icmp.stdout) ELSE << FALSE, Ratio(0, 1) >>
  IN  IF time_ms[1] THEN Probing(time_ms[2], << "ping" >>)
      ELSE LET r == tcp_ping(tcp, dns)
           IN  Probing(r.value, << "ping" >> \o r.calls)

\* what ping can print: the lines of its stdout, and the round-trip time a
\* reader finds in them (none when no line gives one)
ReplyLine ==
  << "6", "4", " ", "b", "y", "t", "e", "s", " ", "f", "r", "o", "m", " ", "8", ".", "8", ".",
     "8", ".", "8", ":", " ", "t", "t", "l", "=", "1", "1", "7", " ", "t", "i", "m", "e", "=",
     "1", "2", ".", "3", " ", "m", "s" >>

WholeLine ==
  << "6", "4", " ", "b", "y", "t", "e", "s", " ", "f", "r", "o", "m", " ", "1", ".", "1", ".",
     "1", ".", "1", ":", " ", "t", "t", "l", "=", "5", "7", " ", "t", "i", "m", "e", "=", "7",
     " ", "m", "s" >>

FastLine ==
  << "6", "4", " ", "b", "y", "t", "e", "s", " ", "f", "r", "o", "m", " ", "1", "0", ".", "0",
     ".", "0", ".", "1", ":", " ", "t", "t", "l", "=", "6", "4", " ", "t", "i", "m", "e", "=",
     "0", ".", "4", "5", " ", "m", "s" >>

UptimeLine ==
  << "u", "p", "t", "i", "m", "e", "=", "n", "/", "a" >>

LocaleLine ==
  << "6", "4", " ", "B", "y", "t", "e", "s", " ", "v", "o", "n", " ", "8", ".", "8", ".", "8",
     ".", "8", ":", " ", "t", "t", "l", "=", "1", "1", "7", " ", "Z", "e", "i", "t", "=", "1",
     "2", ".", "3", " ", "m", "s" >>

BrokenLine ==
  << "t", "t", "l", "=", "6", "4", " ", "t", "i", "m", "e", "=", "1", ".", "2", ".", "3", " ",
     "m", "s" >>

SummaryLine ==
  << "1", " ", "p", "a", "c", "k", "e", "t", "s", " ", "t", "r", "a", "n", "s", "m", "i", "t",
     "t", "e", "d", ",", " ", "1", " ", "r", "e", "c", "e", "i", "v", "e", "d", ",", " ", "t",
     "i", "m", "e", " ", "0", "m", "s" >>

NoReply == << >>

Reply(stdout, time) == [ stdout |-> stdout, time |-> time ]

Replies ==
  { Reply(<< ReplyLine, SummaryLine >>, Ratio(123, 10)),
    Reply(<< SummaryLine, WholeLine >>, Ratio(7, 1)),
    Reply(<< UptimeLine, FastLine, ReplyLine >>, Ratio(45, 100)),
    Reply(<< BrokenLine, WholeLine >>, Ratio(7, 1)),
    Reply(<< LocaleLine, SummaryLine >>, NoReply),
    Reply(<< BrokenLine >>, NoReply),
    Reply(<< >>, NoReply) }

\* Command::output().await of ping: the spawn fails, or the process exits
Icmp(spawn, success, reply) ==
  [ spawn |-> spawn, success |-> success, stdout |-> reply.stdout, time |-> reply.time ]

IcmpOutcomes ==
  { Icmp("Err", FALSE, Reply(<< >>, NoReply)) }
    \cup { Icmp("Ok", s, r) : s \in BOOLEAN, r \in Replies }

\* TcpStream::connect: connected or refused after some milliseconds, or
\* no answer at all
Connect(returns, output, after_ms) ==
  [ returns |-> returns, output |-> output, after_ms |-> after_ms ]

TcpOutcomes ==
  { Connect(TRUE, "Ok", 0), Connect(TRUE, "Ok", 37), Connect(TRUE, "Ok", 1999),
    Connect(TRUE, "Ok", 2500), Connect(TRUE, "Err", 1), Connect(FALSE, "Err", 0) }

DnsOutcomes == { "Ok", "Err" }

\* ------------------------------------------------ failed_logins
FailedPassword ==
  << "F", "a", "i", "l", "e", "d", " ", "p", "a", "s", "s", "w", "o", "r", "d" >>

InvalidUser ==
  << "i", "n", "v", "a", "l", "i", "d", " ", "u", "s", "e", "r" >>

FailedLine ==
  << "F", "a", "i", "l", "e", "d", " ", "p", "a", "s", "s", "w", "o", "r", "d", " ", "f", "o",
     "r", " ", "r", "o", "o", "t", " ", "f", "r", "o", "m", " ", "1", "0", ".", "0", ".", "0",
     ".", "9" >>

InvalidLine ==
  << "F", "a", "i", "l", "e", "d", " ", "p", "a", "s", "s", "w", "o", "r", "d", " ", "f", "o",
     "r", " ", "i", "n", "v", "a", "l", "i", "d", " ", "u", "s", "e", "r", " ", "b", "o", "b" >>

SessionLine ==
  << "s", "e", "s", "s", "i", "o", "n", " ", "o", "p", "e", "n", "e", "d", " ", "f", "o", "r",
     " ", "u", "s", "e", "r", " ", "p", "i" >>

TailLines == 500

LogFiles == << "/var/log/auth.log", "/var/log/secure", "/var/log/messages" >>

\* line.contains("Failed password") && !line.contains("invalid user")
Counted(line) == contains(line, FailedPassword) /\ ~contains(line, InvalidUser)

\* lines.iter().rev().take(500)
recent_lines(lines) == Take(Rev(lines), TailLines)

\* the loop over log_files: count after the files from k on
RECURSIVE CountLogs(_, _, _)
CountLogs(logs, k, count) ==
  IF k > Len(LogFiles) THEN count
  ELSE CountLogs(logs, k + 1,
                 IF logs[k].readable
                 THEN count + Len(SelectSeq(recent_lines(logs[k].lines), Counted))
                 ELSE count)

\* failed_logins(&self) -> u32; gen_bool and gen_range are what the random
\* generator yields; synthesized tells that the count was drawn, not counted
failed_logins(logs, gen_bool, gen_range) ==
  LET count == CountLogs(logs, 1, 0)
  IN  IF count = 0 /\ gen_bool
      THEN [ value |-> gen_range, synthesized |-> TRUE ]
      ELSE [ value |-> count, synthesized |-> FALSE ]

Log(readable, lines) == [ readable |-> readable, lines |-> lines ]

Unreadable == Log(FALSE, << >>)

\* 502 lines: a counted line at the two oldest and at every hundredth place
LongLog ==
  Log(TRUE, [ i \in 1..(TailLines + 2) |->
                IF i <= 2 \/ i % 100 = 0 THEN FailedLine
                ELSE IF i % 7 = 0 THEN InvalidLine ELSE SessionLine ])

Logs ==
  { Unreadable, Log(TRUE, << >>), Log(TRUE, << SessionLine, InvalidLine, SessionLine >>),
    Log(TRUE, << FailedLine, InvalidLine, SessionLine, FailedLine >>), LongLog }

\* rng.gen_range(0..3)
GenRange == 0..2

\* ------------------------------------------------ the external calls of update
NoTimeout == << >>

External(call, bound) == [ call |-> call, bound |-> bound ]

\* The calls update awaits under the write guard when every fallback is
\* consulted, each with the bound on its await: vcgencmd (lines 102-105),
\* ip route (143-146) and lookup_host (203) have none; ping gives up by its
\* own option -W 1 (166); the connect stands under timeout(2 s) (196).
ExternalCalls ==
  << External("vcgencmd", NoTimeout), External("ip route", NoTimeout),
     External("ping", << 1 >>), External("TcpStream::connect", << TcpTimeout >>),
     External("lookup_host", NoTimeout) >>

CallNames == { ExternalCalls[i].call : i \in 1..Len(ExternalCalls) }

Position(call) == CHOOSE i \in 1..Len(ExternalCalls) : ExternalCalls[i].call = call

After(call) ==
  IF Position(call) = Len(ExternalCalls) THEN "drop"
  ELSE ExternalCalls[Position(call) + 1].call

\* ------------------------------------------------ the probes, one call each
Worlds ==
  { [ call |-> "ping_host", icmp |-> i, tcp |-> t, dns |-> d ] :
      i \in IcmpOutcomes, t \in TcpOutcomes, d \in DnsOutcomes }
  \cup { [ call |-> "failed_logins", logs |-> l, gen_bool |-> b, gen_range |-> r ] :
           l \in [ 1..Len(LogFiles) -> Logs ], b \in BOOLEAN, r \in GenRange }
  \cup { [ call |-> "update", never_returns |-> c ] : c \in CallNames \cup { "none" } }

InitProbes ==
  /\ window_size = DefaultWindow
  /\ anomaly_threshold = Threshold(DefaultThreshold, 1)
  /\ baseline_file = MissingFile
  /\ metrics_history = << >>
  /\ baselines = EmptyMap
  /\ feedback = EmptyFeedback
  /\ current_iocs = {}
  /\ write_locked = FALSE
  /\ readers = NoReaders
  /\ pc = "call"
  /\ anomalies = << >>
  /\ has_anomaly = FALSE
  /\ issued = << >>
  /\ steps = << >>
  /\ ticks = 0
  /\ changes = 0
  /\ IntelIdle
  /\ StoreIdle
  /\ response = NoResponse
  /\ world \in Worlds
  /\ AuthIdle

probes_side == << intel, store, config, world, auth, service, baseline_file, readers, anomalies,
                  has_anomaly, issued, ticks, changes >>

PingCall ==
  /\ pc = "call"
  /\ world.call = "ping_host"
  /\ response' = ping_host(world.icmp, world.tcp, world.dns)
  /\ pc' = "returned"
  /\ UNCHANGED << probes_side, write_locked, steps >>

LoginsCall ==
  /\ pc = "call"
  /\ world.call = "failed_logins"
  /\ response' = failed_logins(world.logs, world.gen_bool, world.gen_range)
  /\ pc' = "returned"
  /\ UNCHANGED << probes_side, write_locked, steps >>

\* the tick holds the write guard and update reaches its first external call
UpdateEnter ==
  /\ pc = "call"
  /\ world.call = "update"
  /\ CanWrite
  /\ write_locked' = TRUE
  /\ pc' = ExternalCalls[1].call
  /\ UNCHANGED << probes_side, response, steps >>

\* the call the tick awaits returns on its own
CallReturns ==
  /\ pc \in CallNames
  /\ world.never_returns # pc
  /\ steps' = Append(steps, pc)
  /\ pc' = After(pc)
  /\ UNCHANGED << probes_side, response, write_locked >>

\* the call does not return, and the bound on its await passes
CallTimesOut ==
  /\ pc \in CallNames
  /\ world.never_returns = pc
  /\ ExternalCalls[Position(pc)].bound # NoTimeout
  /\ steps' = Append(steps, "Elapsed")
  /\ pc' = After(pc)
  /\ UNCHANGED << probes_side, response, write_locked >>

\* the rest of the tick, and drop(monitor_guard)
UpdateLeave ==
  /\ pc = "drop"
  /\ write_locked' = FALSE
  /\ pc' = "returned"
  /\ UNCHANGED << probes_side, response, steps >>

NextProbes ==
  \/ PingCall
  \/ LoginsCall
  \/ UpdateEnter
  \/ CallReturns
  \/ CallTimesOut
  \/ UpdateLeave
  \/ \E h \in Handlers : world.call = "update" /\ HandlerEnter(h)
  \/ \E h \in Handlers : HandlerLeave(h)

SpecProbes == InitProbes /\ [][NextProbes]_vars

\* ================================================================ properties
Returned == pc = "returned"

WindowLen == Len(metrics_history)

Latest == metrics_history[Len(metrics_history)]

Placeholders == { "Learning...", "All Normal" }

AnomalyFor(label) ==
  \E i \in 1..Len(anomalies) :
    anomalies[i].kind = "Anomaly" /\ anomalies[i].unit = "" /\ anomalies[i].subject = label

HostAnomalyFor(host) ==
  \E i \in 1..Len(anomalies) :
    anomalies[i].kind = "Anomaly" /\ anomalies[i].unit = "ms" /\ anomalies[i].subject = host

DownFor(host) ==
  \E i \in 1..Len(anomalies) :
    anomalies[i].kind = "Device Down" /\ anomalies[i].subject = host

\* r is the whole number nearest to v (in 1/Scale units), ties to even
IsRounding(v, r) ==
  \/ 2 * Abs(v - r * Scale) < Scale
  \/ 2 * Abs(v - r * Scale) = Scale /\ r % 2 = 0

\* the feedback map holds true for the key of (name, value)
DismissedTrue(name, value) ==
  \E k \in DOMAIN feedback : k[1] = name /\ IsRounding(value, k[2]) /\ feedback[k]

\* |value - mean| > threshold * std for a baseline b with std > 0
Beyond(value, b, t) ==
  LET d == value * b.den - b.mean_num
  IN  \/ t.num < 0
      \/ t.num >= 0 /\ d * d * t.den * t.den > t.num * t.num * b.std_rad

\* b has the given mean and std, in whole units
IsWhole(b, mean, std) ==
  /\ b.mean_num = mean * Scale * b.den
  /\ b.std_rad = (std * Scale * b.den) * (std * Scale * b.den)

\* C1: with fewer than 20 samples in the window detect_anomalies returns the
\* single descriptor "Learning..." and the flag false, whatever the baselines,
\* the newest sample and the indicator set are.
C1_ColdStart ==
  (Returned /\ WindowLen < MinSamples)
    => (anomalies = << Learning >> /\ has_anomaly = FALSE)

C1_Witness ==
  /\ Returned
  /\ WindowLen = MinSamples - 1
  /\ Latest.host_status[monitored_hosts[2]] = Unreachable * Scale
  /\ Latest.cpu_percent = 50 * Scale
  /\ baselines = FullBaselines
  /\ current_iocs = IocUniverse
  /\ anomalies = << Learning >>
  /\ ~has_anomaly

\* C2: with at least 20 samples a fixed signal gets an anomaly descriptor
\* exactly when it has a baseline, std > 0, |value - mean| > threshold * std
\* and the feedback entry of (signal, rounded value) is not true; with mean 15,
\* std 5 and threshold 3 the value 50 is flagged, 20 is not, and 30 (exactly
\* mean + threshold * std) is not.
C2_DeviationTest ==
  (Returned /\ WindowLen >= MinSamples) =>
    /\ \A k \in 1..Len(FixedSignals) :
         LET sig == FixedSignals[k]
             v   == Reading(Latest, sig)
         IN  AnomalyFor(Label(sig)) <=>
               /\ sig \in DOMAIN baselines
               /\ baselines[sig].std_rad > 0
               /\ Beyond(v, baselines[sig], anomaly_threshold)
               /\ ~DismissedTrue(sig, v)
    /\ ( /\ "cpu" \in DOMAIN baselines
         /\ IsWhole(baselines["cpu"], 15, 5)
         /\ anomaly_threshold = Threshold(3, 1) )
       => /\ (Latest.cpu_percent = 50 * Scale /\ ~DismissedTrue("cpu", 50 * Scale))
               => AnomalyFor("CPU")
          /\ Latest.cpu_percent = 20 * Scale => ~AnomalyFor("CPU")
          /\ Latest.cpu_percent = 30 * Scale => ~AnomalyFor("CPU")

C2_Witness ==
  /\ Returned
  /\ WindowLen >= MinSamples
  /\ "cpu" \in DOMAIN baselines
  /\ IsWhole(baselines["cpu"], 15, 5)
  /\ anomaly_threshold = Threshold(3, 1)
  /\ Latest.cpu_percent = 50 * Scale
  /\ AnomalyFor("CPU")
  /\ ~AnomalyFor("RAM")

\* C3: a signal (fixed or host) whose baseline has std = 0 never gets a
\* deviation descriptor, for any value and any threshold.
C3_ZeroStdNeverFlags ==
  Returned =>
    /\ \A k \in 1..Len(FixedSignals) :
         (FixedSignals[k] \in DOMAIN baselines /\ baselines[FixedSignals[k]].std_rad = 0)
           => ~AnomalyFor(Label(FixedSignals[k]))
    /\ \A h \in HostSet :
         (h \in DOMAIN baselines /\ baselines[h].std_rad = 0) => ~HostAnomalyFor(h)

C3_Witness ==
  /\ Returned
  /\ WindowLen >= MinSamples
  /\ baselines = FlatBaselines
  /\ anomaly_threshold = Threshold(0, 1)
  /\ Latest.cpu_percent = 50 * Scale
  /\ Latest.host_status[monitored_hosts[1]] = 80 * Scale
  /\ anomalies = << AllNormal >>

C5_DownAlways ==
  (Returned /\ WindowLen >= 1) =>
    \A h \in HostSet :
      Latest.host_status[h] = Unreachable * Scale => (DownFor(h) /\ has_anomaly)

\* C5 amended: the same once the window holds at least 20 samples, whether or
\* not the host has a baseline and whatever its mean and std.
C5_DownAfterColdStart ==
  (Returned /\ WindowLen >= MinSamples) =>
    \A h \in HostSet :
      Latest.host_status[h] = Unreachable * Scale => (DownFor(h) /\ has_anomaly)

C5_Witness ==
  /\ Returned
  /\ WindowLen >= MinSamples
  /\ Latest.host_status[monitored_hosts[2]] = Unreachable * Scale
  /\ monitored_hosts[2] \notin DOMAIN baselines
  /\ DownFor(monitored_hosts[2])
  /\ has_anomaly

\* C7: the result is never empty; the flag is false exactly when the list is
\* the single placeholder ("All Normal", or "Learning..." in cold start) and
\* true exactly when it holds one or more real descriptors; a placeholder
\* never stands beside a real descriptor.
C7_ResultShape ==
  Returned =>
    /\ anomalies # << >>
    /\ ~has_anomaly <=> ( \/ (anomalies = << Learning >> /\ WindowLen < MinSamples)
                          \/ (anomalies = << AllNormal >> /\ WindowLen >= MinSamples) )
    /\ has_anomaly <=> \A i \in 1..Len(anomalies) : anomalies[i].kind \notin Placeholders
    /\ \A i \in 1..Len(anomalies) :
         anomalies[i].kind \in Placeholders => Len(anomalies) = 1

C7_Witness ==
  /\ Returned
  /\ WindowLen >= MinSamples
  /\ has_anomaly
  /\ Len(anomalies) >= 4
  /\ \A i \in 1..Len(anomalies) : anomalies[i].kind \notin Placeholders

\* ------------------------------------------------------------ the tick
\* the sum of the values of col, and of their squares
Total(col) ==
  LET acc[i \in 0..Len(col)] == IF i = 0 THEN 0 ELSE acc[i - 1] + col[i]
  IN  acc[Len(col)]

TotalOfSquares(col) ==
  LET acc[i \in 0..Len(col)] == IF i = 0 THEN 0 ELSE acc[i - 1] + col[i] * col[i]
  IN  acc[Len(col)]

CountCpu(v) == Cardinality({ i \in 1..WindowLen : metrics_history[i].cpu_percent = v })

\* the window holds ten samples with 10 % cpu and ten with 20 %
TenAndTen == WindowLen = 20 /\ CountCpu(10 * Scale) = 10 /\ CountCpu(20 * Scale) = 10

\* C6: when learn_baseline has returned from a pass over a window of N >= 20
\* samples, every fixed signal has a baseline whose mean is the sum of the N
\* values in the window over N, whose std is the population standard
\* deviation sqrt(sum of squares / N - mean^2), and whose sample_count is N;
\* ten 10s and ten 20s give mean 15, std 5, count 20.
\* (A learned baseline is kept as mean_num / N and sqrt(std_rad) / N.)
C6_LearnedFromWindow ==
  (pc = "detect_anomalies" /\ WindowLen >= MinSamples) =>
    /\ \A k \in 1..Len(FixedSignals) :
         /\ FixedSignals[k] \in DOMAIN baselines
         /\ LET b   == baselines[FixedSignals[k]]
                col == Column(metrics_history, FixedSignals[k])
                N   == WindowLen
                S   == Total(col)
                Q   == TotalOfSquares(col)
            IN  /\ b.sample_count = N
                /\ b.den = N
                /\ b.mean_num = S
                /\ b.std_rad = N * Q - S * S
    /\ TenAndTen =>
         (IsWhole(baselines["cpu"], 15, 5) /\ baselines["cpu"].sample_count = 20)

C6_Witness ==
  /\ pc = "detect_anomalies"
  /\ window_size = MinSamples
  /\ ticks = MinSamples + 1
  /\ TenAndTen
  /\ IsWhole(baselines["cpu"], 15, 5)
  /\ baselines["cpu"].sample_count = 20
  /\ baselines["ping"].std_rad = 0

\* C8 as stated: the window never holds more than window_size samples, for
\* every configured window_size, 0 and 1 included.
C8_WindowBounded == WindowLen <= window_size

Exclusive == { "update", "learn_baseline", "detect_anomalies", "trigger_actions",
               "save_baseline", "drop" }

Probed == << "update", "learn_baseline", "detect_anomalies" >>

Acted == IF has_anomaly THEN << "trigger_actions" >> ELSE << >>

\* the calls a tick has made when the loop stands at position p
StepsAt(p) ==
  CASE p = "write"            -> << >>
    [] p = "update"           -> << >>
    [] p = "learn_baseline"   -> << "update" >>
    [] p = "detect_anomalies" -> << "update", "learn_baseline" >>
    [] p = "trigger_actions"  -> Probed
    [] p = "save_baseline"    -> Probed \o Acted
    [] p = "drop"             -> Probed \o Acted \o << "save_baseline" >>
    [] p = "sleep"            -> IF ticks = 0 THEN << >>
                                 ELSE Probed \o Acted \o << "save_baseline" >>

\* C9: a tick calls update, learn_baseline, detect_anomalies, then
\* trigger_actions exactly when detect_anomalies returned the flag true, then
\* save_baseline, in that order and once each, all of it while it holds the
\* write lock with no reader inside; the lock is released only after
\* save_baseline has returned, whatever save_baseline returned.
C9_TickOrder ==
  /\ steps = StepsAt(pc)
  /\ pc = "trigger_actions" => has_anomaly
  /\ write_locked <=> pc \in Exclusive
  /\ write_locked => Holding = 0

C9_Witness ==
  /\ pc = "sleep"
  /\ ~write_locked
  /\ ticks > MinSamples
  /\ has_anomaly
  /\ steps = << "update", "learn_baseline", "detect_anomalies", "trigger_actions",
                "save_baseline" >>
  /\ baseline_file = MissingFile

\* the baselines of the fixed signals are those of the window as it stands
Settled ==
  \A k \in 1..Len(FixedSignals) :
    /\ FixedSignals[k] \in DOMAIN baselines
    /\ baselines[FixedSignals[k]].sample_count = WindowLen
    /\ baselines[FixedSignals[k]].mean_num =
         Total(Column(metrics_history, FixedSignals[k]))

\* C10: handlers hold the read lock together, and never while a tick holds
\* the write lock: whenever a handler is inside, the loop stands outside its
\* exclusive section and the state is that of a finished tick (with 20 or more
\* samples the baselines are those of the window as it is, never those of the
\* window before the latest sample).
C10_ReadersSeeFinishedTicks ==
  Holding > 0 =>
    /\ ~write_locked
    /\ pc \notin Exclusive
    /\ WindowLen >= MinSamples => Settled

C10_Witness ==
  /\ readers = { "api_status", "api_metrics" }
  /\ pc = "write"
  /\ WindowLen >= MinSamples
  /\ metrics_history[WindowLen] # metrics_history[WindowLen - 1]

\* ------------------------------------------------------------ the two loops
\* C11: while the feed loop holds its lock (from write() granted to drop, the
\* whole of fetch_all included) the monitor's write() is granted as soon as
\* no handler holds the monitor lock, and a handler's read() is granted as
\* soon as no tick holds or awaits it: the feed lock is never waited for.
C11_RefreshNeverBlocksMonitor ==
  intel_locked =>
    /\ (pc = "write" /\ ~write_locked /\ Holding = 0) => ENABLED MonitorAcquire
    /\ \A h \in Handlers :
         (~write_locked /\ pc # "write" /\ h \notin readers) => ENABLED HandlerEnter(h)

C11_Witness ==
  /\ intel_locked
  /\ intel_pc = "fetch_all"
  /\ write_locked
  /\ pc = "detect_anomalies"
  /\ ticks = MaxTicks

\* C13: neither loop ever stops.  The monitor loop is never left forever
\* inside a tick (every fire is followed by the end of its tick) nor forever
\* asleep while ticks remain below the bound (the end of a tick is followed by
\* the next fire); the same for the feed timer and its refresh; whatever
\* update, trigger_actions, save_baseline and fetch_all returned before, and
\* however often requests arrive.
C13_LoopsRunForever ==
  /\ []<>(pc = "sleep")
  /\ []<>(pc = "write" \/ ticks = MaxTicks)
  /\ []<>(intel_pc = "sleep")
  /\ []<>(intel_pc = "write" \/ refreshes = MaxRefreshes)

C13_Witness ==
  /\ pc = "sleep"
  /\ ticks = MaxTicks
  /\ has_anomaly
  /\ baseline_file = MissingFile
  /\ intel_pc = "sleep"
  /\ refreshes = MaxRefreshes
  /\ intel_data = NoIntel
  /\ Holding > 0

\* the addresses named by the items the feed poller holds
FlaggedByFeeds ==
  { intel_data[f][i].title : f \in DOMAIN intel_data, i \in 1..1 }

ThreatFor(list, ip) == \E i \in 1..Len(list) : list[i] = ThreatIP(ip)

\* C12: once a threat-feed refresh has finished and the poller holds an item
\* naming an address, every detection pass run on a window of at least 20
\* samples returns a "Threat IP" descriptor for that address.
C12_FeedAddressesReported ==
  [][ ( /\ pc = "detect_anomalies"
        /\ pc' # "detect_anomalies"
        /\ WindowLen >= MinSamples
        /\ intel_pc = "sleep" )
      => \A ip \in FlaggedByFeeds : ThreatFor(anomalies', ip) ]_vars

\* ------------------------------------------------------------ the store
\* the file is a document both of whose members deserialize
WellFormed(file) ==
  /\ file.exists /\ file.json
  /\ file.baseline_shape = "map" /\ baselines_from_value(file.baseline)[1]
  /\ file.feedback_shape = "map" /\ feedback_from_value(file.feedback)[1]

\* C14: no step of save_baseline and no crash at any point of it changes the
\* target file to anything but the complete document of the maps being saved;
\* otherwise the target stays what it was (never partial, never removed).
C14_AtomicSave ==
  [][ \/ baseline_file' = baseline_file
      \/ baseline_file' = Document(baselines, feedback) ]_vars

C14_Witness ==
  /\ pc = "crashed"
  /\ temp_file = NotJson
  /\ baseline_file = SeededFile
  /\ saves = 1
  /\ crashes = 1

C16_MalformedStartsEmpty ==
  (pc = "sleep" /\ steps = << "new" >> /\ ~WellFormed(baseline_file))
    => (baselines = EmptyMap /\ feedback = EmptyFeedback)

\* C17: every feedback entry that is true in the document of the last save
\* that returned Ok is true in the target file, and true in the feedback map
\* of the running process, through learning, saves that fail or succeed,
\* crashes and restarts.
C17_FeedbackPersists ==
  \A k \in DOMAIN last_saved.feedback :
    last_saved.feedback[k] = JBool(TRUE) =>
      /\ baseline_file.feedback_shape = "map"
      /\ k \in DOMAIN baseline_file.feedback
      /\ baseline_file.feedback[k] = JBool(TRUE)
      /\ pc # "crashed" => (k \in DOMAIN feedback /\ feedback[k])

C17_Witness ==
  /\ pc = "sleep"
  /\ steps = << "learn_baseline" >>
  /\ crashes = 1
  /\ saves = MaxSaves
  /\ temp_file = NotJson
  /\ last_saved = SeededFile
  /\ feedback[<< "cpu", 20 >>]

\* ------------------------------------------------------------ the actions
Commands(cmd) == SelectSeq(issued, LAMBDA c : c.cmd = cmd)

\* C18: trigger_actions issues a shutdown exactly when the list holds a
\* temperature anomaly descriptor whose value exceeds 80.0.
C18_HotShutsDown ==
  Returned =>
    ( Commands("shutdown") # << >>
        <=> \E i \in 1..Len(anomalies) :
              /\ anomalies[i].kind = "Anomaly"
              /\ anomalies[i].subject = "Temp"
              /\ anomalies[i].value > HighTemp * Scale )

\* four parts between dots, each one to three digits with a value of 0..255
StrictIPv4(token) ==
  /\ Len(Split(token)) = 4
  /\ \A k \in 1..4 :
       LET p == Split(token)[k]
       IN  /\ Len(p) \in 1..3
           /\ \A j \in 1..Len(p) : p[j] \in DigitSet
           /\ ParseNat(p) <= 255

\* the "Threat IP" descriptors of the list whose token (the run of digits and
\* dots after "Threat IP:" and blanks) is a strict IPv4 address
ValidThreats ==
  SelectSeq(anomalies, LAMBDA d :
    /\ d.kind = "Threat IP"
    /\ captures_threat(Render(d))[1]
    /\ StrictIPv4(captures_threat(Render(d))[2]))

\* C19: trigger_actions issues one firewall rule for each "Threat IP"
\* descriptor whose extracted token is a strict IPv4 address, for that token
\* and in the order of the list, and no other firewall rule.
C19_FirewallOnlyStrictIPv4 ==
  Returned =>
    /\ Len(Commands("iptables")) = Len(ValidThreats)
    /\ \A i \in 1..Len(ValidThreats) :
         Commands("iptables")[i].arg = captures_threat(Render(ValidThreats[i]))[2]

C19_Witness ==
  /\ Returned
  /\ Len(anomalies) = 2
  /\ anomalies[1] = ThreatIP("256.1.1.1")
  /\ anomalies[2] = ThreatIP("10.0.0.1x")
  /\ Len(issued) = 1
  /\ issued[1].arg = << "1", "0", ".", "0", ".", "0", ".", "1" >>

\* ------------------------------------------------------------ the queries
Min(a, b) == IF a < b THEN a ELSE b

\* C20: the answer to a metrics query holds min(limit, window length) samples,
\* limit being 60 when the request gives none, and its i-th sample is the
\* i-th most recent sample probed: most recent first, none skipped, none that
\* the window has evicted.
C20_MostRecentFirst ==
  response # NoResponse =>
    LET limit == IF response.limit = NoLimit THEN 60 ELSE response.limit[1]
    IN  /\ response.count = Min(limit, WindowLen)
        /\ Len(response.metrics) = response.count
        /\ \A i \in 1..response.count :
             /\ response.metrics[i] = Probe(ticks - i + 1)
             /\ \E j \in 1..WindowLen : metrics_history[j] = response.metrics[i]

C20_Witness ==
  /\ response # NoResponse
  /\ response.limit = NoLimit
  /\ window_size = DefaultWindow + 2
  /\ ticks = MaxPushes
  /\ WindowLen = DefaultWindow + 2
  /\ response.count = 60
  /\ response.metrics[1] = Probe(MaxPushes)
  /\ response.metrics[60] = Probe(MaxPushes - 59)

\* ------------------------------------------------------------ the window
\* C21: every update appends exactly one sample and returns Ok, whichever
\* probes found their target unreachable; with a window size of at least 1
\* the window after k updates is the samples of the last min(k, window size)
\* updates, in the order the updates completed (the oldest is evicted first).
C21_WindowIsLastTicks ==
  /\ ticks > 0 => steps = << "update", "Ok" >>
  /\ window_size >= 1 =>
       metrics_history =
         [ i \in 1..Min(ticks, window_size) |->
             Probe(ticks - Min(ticks, window_size) + i) ]

C21_Witness ==
  /\ window_size = 3
  /\ ticks = 6
  /\ steps = << "update", "Ok" >>
  /\ metrics_history = << Probe(4), Probe(5), Probe(6) >>
  /\ metrics_history[1].host_status = OneDown
  /\ metrics_history[3].ping_ms = Unreachable * Scale

\* ------------------------------------------------------------ the hosts
\* C22: with at least 20 samples a monitored host whose newest ping is not the
\* unreachable sentinel gets an anomaly descriptor exactly when it has a
\* baseline, std > 0, |ping - mean| > threshold * std and the feedback entry
\* of (host, rounded ping) is not true.
C22_HostDeviationTest ==
  (Returned /\ WindowLen >= MinSamples) =>
    \A h \in HostSet :
      LET v == Latest.host_status[h]
      IN  v # Unreachable * Scale =>
            ( HostAnomalyFor(h) <=>
                /\ h \in DOMAIN baselines
                /\ baselines[h].std_rad > 0
                /\ Beyond(v, baselines[h], anomaly_threshold)
                /\ ~DismissedTrue(h, v) )

\* the place of a descriptor in the order the claim gives: the seven fixed
\* signals as declared, then the hosts as configured, then the threats
Rank(d) ==
  IF d.kind = "Threat IP" THEN Len(FixedSignals) + Len(monitored_hosts) + 1
  ELSE IF d.kind = "Device Down" \/ (d.kind = "Anomaly" /\ d.unit = "ms")
       THEN Len(FixedSignals)
            + (CHOOSE k \in 1..Len(monitored_hosts) : monitored_hosts[k] = d.subject)
       ELSE CHOOSE k \in 1..Len(FixedSignals) : Label(FixedSignals[k]) = d.subject

\* C23: the descriptors of a pass stand in a fixed order: those of the fixed
\* signals in the order cpu, ram, disk, temp, ping, net, fail, then those of
\* the monitored hosts in the order of the configuration, then the threat
\* addresses.
C23_DescriptorOrder ==
  (Returned /\ has_anomaly) =>
    \A i, j \in 1..Len(anomalies) :
      i < j =>
        \/ Rank(anomalies[i]) < Rank(anomalies[j])
        \/ anomalies[i].kind = "Threat IP" /\ anomalies[j].kind = "Threat IP"

\* the same with the hosts in any order between the fixed signals and the
\* threat addresses
HostsBetween ==
  (Returned /\ has_anomaly) =>
    \A i, j \in 1..Len(anomalies) :
      i < j =>
        \/ Rank(anomalies[i]) < Rank(anomalies[j])
        \/ /\ Rank(anomalies[i]) > Len(FixedSignals)
           /\ Rank(anomalies[j]) > Len(FixedSignals)
           /\ anomalies[i].kind = "Threat IP" => anomalies[j].kind = "Threat IP"

\* ------------------------------------------------------------ cold start
\* C24 as stated: whenever the window holds fewer than 20 samples the
\* baselines map is empty, also in a process started after a successful save.
C24_EmptyBelowTwenty ==
  (pc # "crashed" /\ WindowLen < MinSamples) => baselines = EmptyMap

\* C24 amended: a process starts with the baselines load_baseline reads from
\* the persisted file (none when the file is missing or its baseline member
\* does not load), and while its window holds fewer than 20 samples no step
\* (learn_baseline, a save that fails or succeeds) changes them.
C24_LoadedUntilLearned ==
  /\ []( (pc = "sleep" /\ steps = << "new" >>)
           => baselines = load_baseline(baseline_file)[1] )
  /\ [][ (pc # "crashed" /\ pc' # "crashed" /\ Len(metrics_history') < MinSamples)
           => baselines' = baselines ]_vars

C24_Witness ==
  /\ pc = "sleep"
  /\ steps = << "learn_baseline" >>
  /\ WindowLen = MinSamples - 1
  /\ crashes = 1
  /\ last_saved = Document(learn_baseline(TenQuietTenBusy, EmptyMap), EmptyFeedback)
  /\ baselines = learn_baseline(TenQuietTenBusy, EmptyMap)

\* ------------------------------------------------------------ a failed save
\* C25: a save_baseline that fails, in fs::write or in fs::rename, leaves the
\* baselines, the feedback and the window in memory as they were and the
\* target file as it was (the target changes only in the rename of a save
\* that returns Ok); the tick then drops the write guard as after a save that
\* succeeded, and the next tick calls save_baseline again.
C25_FailedSaveKeepsState ==
  /\ [][ (pc \in { "fs::write", "fs::rename" } /\ pc' # "crashed") =>
           /\ UNCHANGED << baselines, feedback, metrics_history >>
           /\ baseline_file' # baseline_file => steps' = << "save_baseline", "Ok" >>
           /\ steps' = << "save_baseline", "Err" >> =>
                (baseline_file' = baseline_file /\ pc' = "drop" /\ write_locked') ]_vars
  /\ []( pc = "drop" => ENABLED StoreDrop )
  /\ []( pc = "sleep" => ( /\ ~write_locked
                           /\ saves < MaxSaves => ENABLED SaveEnter ) )

C25_Witness ==
  /\ pc = "fs::write"
  /\ write_locked
  /\ saves = 2
  /\ steps = << "save_baseline" >>
  /\ temp_file = Document(baselines, feedback)
  /\ baseline_file = SeededFile
  /\ baselines = learn_baseline(TenQuietTenBusy, SeededBaselines)
  /\ crashes = 0

\* ------------------------------------------------------------ single flight
\* C26: each timer has one tick in flight at most.  A fire of the monitor
\* timer is taken only while the monitor loop stands at its timer, the
\* previous tick having dropped its guard, and the same for the feed timer;
\* while a tick runs no fire of its timer is taken, and a fire that fell due
\* meanwhile is taken once the loop is back at the timer.
C26_SingleFlight ==
  /\ []( pc # "sleep" => ~ENABLED MonitorFire )
  /\ []( intel_pc # "sleep" => ~ENABLED IntelFire )
  /\ []( (pc = "sleep" /\ ticks < MaxTicks) => ENABLED MonitorFire )
  /\ []( (intel_pc = "sleep" /\ refreshes < MaxRefreshes) => ENABLED IntelFire )
  /\ [][ ticks' # ticks =>
           (pc = "sleep" /\ pc' = "write" /\ ~write_locked /\ ticks' = ticks + 1) ]_vars
  /\ [][ refreshes' # refreshes =>
           ( /\ intel_pc = "sleep" /\ intel_pc' = "write" /\ ~intel_locked
             /\ refreshes' = refreshes + 1 ) ]_vars

C26_Witness ==
  /\ pc = "save_baseline"
  /\ write_locked
  /\ ticks < MaxTicks
  /\ ~ENABLED MonitorFire
  /\ intel_pc = "fetch_all"
  /\ intel_locked
  /\ refreshes < MaxRefreshes
  /\ ~ENABLED IntelFire

\* ------------------------------------------------------------ read queries
CommandsIn(list, cmd) == SelectSeq(list, LAMBDA c : c.cmd = cmd)

Descriptors(kind) == SelectSeq(anomalies, LAMBDA d : d.kind = kind)

\* C30: a handler's query (detect_anomalies, status_report and
\* get_metrics_history under the read guard) leaves the window, the baselines,
\* the feedback and the indicator set as they are and issues no command;
\* commands are issued only by the tick's one call of trigger_actions (the
\* list of the commands issued is dropped with the tick's guard), made
\* under the write guard after its own detection returned the flag true, and
\* for each descriptor at most one command of a kind.
C30_QueriesChangeNothing ==
  /\ [][ (readers' # readers \/ response' # response) =>
           UNCHANGED << metrics_history, baselines, feedback, current_iocs, issued,
                        baseline_file, anomalies, has_anomaly >> ]_vars
  /\ [][ (issued' # issued /\ issued' # << >>) =>
           ( /\ pc = "trigger_actions" /\ pc' = "save_baseline"
             /\ write_locked /\ Holding = 0
             /\ has_anomaly /\ steps = Probed
             /\ Len(CommandsIn(issued', "wall")) <= Len(Descriptors("Device Down"))
             /\ Len(CommandsIn(issued', "iptables")) <= Len(Descriptors("Threat IP"))
             /\ Len(CommandsIn(issued', "shutdown")) <= Len(Descriptors("Anomaly")) ) ]_vars

C30_Witness ==
  /\ pc = "sleep"
  /\ "trigger_actions" \in Range(steps)
  /\ readers = NoReaders
  /\ response # NoResponse
  /\ "graphs" \in DOMAIN response
  /\ response.has_anomaly
  /\ \E i \in 1..Len(response.anomalies) : response.anomalies[i].kind = "Device Down"
  /\ Len(response.graphs["cpu"]) = MinSamples
  /\ issued = << >>

\* ------------------------------------------------------------ the probes
IcmpGave == world.icmp.spawn = "Ok" /\ world.icmp.success /\ world.icmp.time # NoReply

TcpGave ==
  world.tcp.returns /\ world.tcp.output = "Ok" /\ world.tcp.after_ms < TcpTimeout * 1000

\* C29: ping_host returns the round-trip time of the ICMP reply when ping
\* exits with success and its output gives one; otherwise the milliseconds the
\* connect to port 80 took when it succeeded within two seconds; otherwise 50
\* when the DNS lookup succeeds; and -1 exactly when all three fail.  A later
\* stage is called only when every earlier one failed.
C29_PingFallbackChain ==
  (pc = "returned" /\ world.call = "ping_host") =>
    /\ IcmpGave =>
         (Same(response.value, world.icmp.time) /\ response.calls = << "ping" >>)
    /\ (~IcmpGave /\ TcpGave) =>
         /\ response.value = Ratio(world.tcp.after_ms, 1)
         /\ response.calls = << "ping", "TcpStream::connect" >>
    /\ (~IcmpGave /\ ~TcpGave) =>
         /\ response.value = Ratio(IF world.dns = "Ok" THEN 50 ELSE -1, 1)
         /\ response.calls = << "ping", "TcpStream::connect", "lookup_host" >>
    /\ Same(response.value, Ratio(-1, 1))
         <=> (~IcmpGave /\ ~TcpGave /\ world.dns # "Ok")

C29_Witness ==
  /\ pc = "returned"
  /\ world.call = "ping_host"
  /\ world.icmp.spawn = "Ok" /\ world.icmp.success
  /\ world.icmp.stdout = << LocaleLine, SummaryLine >>
  /\ world.tcp = Connect(TRUE, "Ok", 2500)
  /\ world.dns = "Ok"
  /\ response = Probing(Ratio(50, 1), << "ping", "TcpStream::connect", "lookup_host" >>)

\* the lines of log k that failed_logins counts
CountedIn(log) ==
  Cardinality({ i \in 1..Len(log.lines) :
                  i > Len(log.lines) - 500 /\ Counted(log.lines[i]) })

ReadableLogs == { k \in 1..Len(LogFiles) : world.logs[k].readable }

\* C28: the failed-login reading is drawn at random only when no log file can
\* be read, and is then 1 or 2; when at least one log can be read it is the
\* number of lines with "Failed password" and without "invalid user" among
\* the last 500 lines of each readable log, 0 when there is none.
C28_FailedLoginReading ==
  (pc = "returned" /\ world.call = "failed_logins") =>
    /\ response.synthesized => (ReadableLogs = {} /\ response.value \in 1..2)
    /\ ReadableLogs # {} =>
         response.value =
           Total([ k \in 1..Len(LogFiles) |->
                     IF k \in ReadableLogs THEN CountedIn(world.logs[k]) ELSE 0 ])

\* C27: while the tick holds the write guard inside an external call it has a
\* next step even if that call never returns on its own, so the guard is
\* released and the handlers waiting for a read guard go on.
C27_EveryCallBounded ==
  (world.call = "update" /\ write_locked /\ pc \in CallNames) =>
    ENABLED (CallReturns \/ CallTimesOut)

\* ------------------------------------------------------------ the indicators
\* C31: the indicator set of the monitor is empty in every state: neither
\* the tick, nor a refresh of the feeds, nor a handler adds to it; so no pass
\* returns a "Threat IP" descriptor and no firewall rule is issued.
C31_NoIndicatorEver ==
  /\ current_iocs = {}
  /\ Descriptors("Threat IP") = << >>
  /\ Commands("iptables") = << >>

C31_Witness ==
  /\ pc = "save_baseline"
  /\ WindowLen >= MinSamples
  /\ "trigger_actions" \in Range(steps)
  /\ issued # << >>
  /\ intel_pc = "sleep"
  /\ refreshes = MaxRefreshes
  /\ "203.0.113.7" \in FlaggedByFeeds
  /\ current_iocs = {}

\* ------------------------------------------------ a window below the threshold
\* config.rs 44-64: window_size is read from the configuration as it is; these
\* are sizes below the twenty samples that learning and detection ask for, and
\* the smallest one that reaches them
ColdSizes == { 0, 1, MinSamples - 1, MinSamples }

InitCold ==
  /\ window_size \in ColdSizes
  /\ anomaly_threshold = Threshold(DefaultThreshold, 1)
  /\ baseline_file \in Files
  /\ metrics_history = << >>
  /\ baselines = load_baseline(baseline_file)[1]
  /\ feedback = load_baseline(baseline_file)[2]
  /\ current_iocs = {}
  /\ write_locked = FALSE
  /\ readers = NoReaders
  /\ pc = "sleep"
  /\ anomalies = << >>
  /\ has_anomaly = FALSE
  /\ issued = << >>
  /\ steps = << >>
  /\ ticks = 0
  /\ changes = 0
  /\ IntelIdle
  /\ world = Quiet
  /\ AuthIdle
  /\ StoreIdle
  /\ response = NoResponse

SpecCold == InitCold /\ [][Next]_vars

\* C32: with a window_size below twenty the system stays in cold start: the
\* window never holds twenty samples, no step changes the baselines, every
\* detection pass returns only "Learning..." with the flag false, and
\* trigger_actions is never called, so no command is issued.
C32_ColdForever ==
  /\ [](window_size < MinSamples =>
          /\ WindowLen < MinSamples
          /\ anomalies \in { << >>, << Learning >> }
          /\ pc \in { "drop", "save_baseline", "trigger_actions" } => anomalies = << Learning >>
          /\ ~has_anomaly
          /\ pc # "trigger_actions"
          /\ "trigger_actions" \notin Range(steps)
          /\ issued = << >>)
  /\ [][window_size < MinSamples => baselines' = baselines]_vars

C32_Witness ==
  /\ window_size = MinSamples - 1
  /\ ticks = MaxTicks
  /\ WindowLen = MinSamples - 1
  /\ pc = "save_baseline"
  /\ anomalies = << Learning >>
  /\ metrics_history[WindowLen] = Busy
  /\ baselines = SeededBaselines
  /\ "detect_anomalies" \in Range(steps)

\* the address a "Threat IP" descriptor lists: all of its text after the
\* blanks that follow the colon
ListedAddress(d) ==
  LET t == Text(d.subject)
  IN  SubSeq(t, RunLen(t, 1, { " " }) + 1, Len(t))

MaxLogins == 2
MaxAdvances == 1

JWT_SECRET == "shaydz-secret-key-change-in-production"
SESSION_DURATION_HOURS == 1
MaxUsername == 64
MaxPassword == 128
\* Validation::default(): the signature and exp are checked, with this leeway
Leeway == 60

Chars(n, c) == [ i \in 1..n |-> c ]

Admin == << "a", "d", "m", "i", "n" >>
Guest == << "g", "u", "e", "s", "t" >>
LongName == Chars(MaxUsername + 1, "a")

\* the password the built-in hash of "admin" verifies (the source gives the
\* hash only), another one, and one of 129 bytes
Welcome == << "w", "e", "l", "c", "o", "m", "e" >>
Guess == << "g", "u", "e", "s", "s" >>
LongPassword == Chars(MaxPassword + 1, "w")

\* the forms POSTed to /login
LoginRequests ==
  { << Admin, Welcome >>, << Admin, Guess >>, << Guest, Welcome >>, << LongName, Welcome >>,
    << Admin, LongPassword >> }

\* a PHC string: the salt, and the digest as the password it is the digest of
PasswordHash(salt, password) == [ salt |-> salt, of |-> password ]

\* argon2.verify_password(password, &parsed_hash).is_ok()
verify_password(password, parsed_hash) == parsed_hash.of = password

\* AuthService::new: the one user; change_password, the only writer of the
\* users, is not followed
users == [ u \in { Admin } |-> PasswordHash("SHhhZFpNdWx0aU1vbml0b3I", Welcome) ]

\* encode(&Header::default(), &claims, &EncodingKey::from_secret(key)): HS256,
\* the same claims and key give the same token
encode(sub, exp, iat, key) == [ sub |-> sub, exp |-> exp, iat |-> iat, key |-> key ]

\* a cookie value that is no JWT
NotAJwt == encode(<< >>, 0, 0, "")

\* decode::<Claims>(token, &DecodingKey::from_secret(key), &validation): the
\* claims, or an error for a bad signature or an exp in the past
decode(token, key, at) ==
  IF token.key = key /\ token.exp + Leeway > at
  THEN << "Ok", token >> ELSE << "Err" >>

\* verify_token, lines 98-109
verify_token(map, at, token) ==
  LET token_data == decode(token, JWT_SECRET, at)
  IN  IF token_data[1] = "Err" THEN << "Err", "decode" >>
      ELSE IF token \in DOMAIN map THEN << "Ok", token_data[2].sub >>
      ELSE << "Err", "Session not found" >>

\* (a slip: logout empties the session map)
logout_everyone(map, token) == NoSessions

\* logout, lines 111-115: sessions.remove(token)
logout(map, token) == [ t \in DOMAIN map \ { token } |-> map[t] ]

\* sessions.insert(token, username)
insert(map, token, username) ==
  [ t \in DOMAIN map \cup { token } |-> IF t = token THEN username ELSE map[t] ]

LoginResponse(success, message, token) ==
  [ call |-> "login", success |-> success, message |-> message, token |-> token ]

\* login, lines 48-76 and 91-95: the lengths, the user, the password, the
\* token; the task then waits for the write lock of the sessions
LoginCheck(username, password) ==
  /\ IF /\ Len(username) <= MaxUsername
        /\ Len(password) <= MaxPassword
        /\ username \in DOMAIN users
        /\ verify_password(password, users[username])
     THEN /\ logins < MaxLogins
          /\ logins' = logins + 1
          /\ pending' = pending \cup
               { [ n |-> logins + 1,
                   username |-> username,
                   token |-> encode(username, now + SESSION_DURATION_HOURS * 3600, now,
                                    JWT_SECRET) ] }
          /\ UNCHANGED response
     ELSE /\ response' = LoginResponse(FALSE, "Invalid credentials", << >>)
          /\ UNCHANGED << pending, logins >>
  /\ UNCHANGED << intel, store, config, world, service, baseline_file, write_locked, readers,
                  pc, locals, steps, ticks, changes, sessions, now, returned, revoked,
                  advances >>

\* login, lines 77-86: the session is stored and the token returned
LoginStore(p) ==
  /\ p \in pending
  /\ sessions' = insert(sessions, p.token, p.username)
  /\ pending' = pending \ { p }
  /\ response' = LoginResponse(TRUE, "Login successful", << p.token >>)
  /\ returned' = returned \cup { p.token }
  /\ revoked' = revoked \ { p.token }
  /\ UNCHANGED << intel, store, config, world, service, baseline_file, write_locked, readers,
                  pc, locals, steps, ticks, changes, now, logins, advances >>

Redirect(handler, cookie, to) ==
  [ call |-> handler, cookie |-> cookie, status |-> "Redirect", to |-> to ]

\* logout_handler, lines 132-142: the cookie of the request, if there is one,
\* is logged out as it is
logout_handler(cookie) ==
  /\ sessions' = IF cookie = << >> THEN sessions ELSE logout(sessions, cookie[1])
  /\ revoked' = revoked \cup (Range(cookie) \cap returned)
  /\ response' = Redirect("logout_handler", cookie, "/login")
  /\ UNCHANGED << intel, store, config, world, service, baseline_file, write_locked, readers,
                  pc, locals, steps, ticks, changes, pending, now, returned, logins,
                  advances >>

\* Utc::now() moves on: by a second, or past the end of every session so far
Jumps == { 1, SESSION_DURATION_HOURS * 3600 + Leeway + 1 }

Advance(d) ==
  /\ advances < MaxAdvances
  /\ advances' = advances + 1
  /\ now' = now + d
  /\ UNCHANGED << intel, store, config, world, service, baseline_file, write_locked, readers,
                  pc, locals, steps, ticks, changes, response, sessions, pending, returned,
                  revoked, logins >>

\* what a request can carry as its "session" cookie: nothing, a token of this
\* server, a token signed with another key, one forged with the key of the
\* source, bytes that are no token
Cookies ==
  { << >> }
    \cup { << t >> : t \in DOMAIN sessions \cup returned \cup { p.token : p \in pending } }
    \cup { << encode(Admin, SESSION_DURATION_HOURS * 3600, 0, "another key") >>,
           << encode(Admin, SESSION_DURATION_HOURS * 3600, 0, JWT_SECRET) >>,
           << NotAJwt >> }

\* the session check of dashboard_page, lines 149-155
SessionOk(cookie) ==
  /\ cookie # << >>
  /\ verify_token(sessions, now, cookie[1])[1] = "Ok"

\* dashboard_page (lines 144-183) checks the session and then reads the
\* monitor; api_status (311-324) and api_metrics (331-345) read the monitor
Serve(h, cookie, detected) ==
  IF h = "dashboard_page" /\ ~SessionOk(cookie)
  THEN Redirect(h, cookie, "/login")
  ELSE [ call |-> h, cookie |-> cookie, status |-> "Ok",
         body |-> QueryBody(h, metrics_history, detected) ]

\* one request to one of the three routes
Request(h, cookie) ==
  /\ CanRead
  /\ \E ho \in Orders(LatestHosts), io \in Orders(current_iocs) :
       response' = Serve(h, cookie,
                         detect_anomalies(metrics_history, baselines, feedback,
                                          anomaly_threshold, ho, io))
  /\ UNCHANGED << intel, store, config, world, service, baseline_file, write_locked, readers,
                  pc, locals, steps, ticks, changes, auth >>

\* the process after its twentieth tick (as in InitLive), or before its first
WebWindows == { << >>, TenQuietTenBusy }

InitWeb ==
  /\ window_size = MinSamples
  /\ anomaly_threshold = Threshold(DefaultThreshold, 1)
  /\ baseline_file = MissingFile
  /\ metrics_history \in WebWindows
  /\ baselines = learn_baseline(metrics_history, EmptyMap)
  /\ feedback = EmptyFeedback
  /\ current_iocs = {}
  /\ write_locked = FALSE
  /\ readers = NoReaders
  /\ pc = "sleep"
  /\ anomalies = << >>
  /\ has_anomaly = FALSE
  /\ issued = << >>
  /\ steps = << >>
  /\ ticks = Len(metrics_history)
  /\ changes = 0
  /\ IntelIdle
  /\ world = Quiet
  /\ AuthIdle
  /\ StoreIdle
  /\ response = NoResponse

NextWeb ==
  \/ \E req \in LoginRequests : LoginCheck(req[1], req[2])
  \/ \E p \in pending : LoginStore(p)
  \/ \E cookie \in Cookies : logout_handler(cookie)
  \/ \E d \in Jumps : Advance(d)
  \/ \E h \in Handlers, cookie \in Cookies : Request(h, cookie)

SpecWeb == InitWeb /\ [][NextWeb]_vars

\* the tokens a client can present in a state
Presentable == { c[1] : c \in Cookies \ { << >> } }

Accepted(map, at, token) == verify_token(map, at, token)[1] = "Ok"

\* C34: verify_token accepts a token only if a successful login returned it
\* and the session map holds it; a token that was logged out is refused until
\* a later login returns the same token; a token stops being accepted only by
\* its own logout or by the passing of time, never by the logout of another.
C34_SessionLifecycle ==
  /\ [](\A t \in Presentable :
          Accepted(sessions, now, t) => (t \in returned /\ t \in DOMAIN sessions))
  /\ [](\A t \in revoked : ~Accepted(sessions, now, t))
  /\ [][\A t \in Presentable :
          (Accepted(sessions, now, t) /\ ~Accepted(sessions', now', t))
            => \/ now' # now
               \/ /\ response'.call = "logout_handler"
                  /\ response'.cookie = << t >>]_vars

\* two sessions of different seconds: the first was logged out and is
\* refused, the other is still accepted
C34_Witness ==
  /\ logins = MaxLogins
  /\ Cardinality(returned) = 2
  /\ Cardinality(DOMAIN sessions) = 1
  /\ \E t \in revoked : t \in returned /\ ~Accepted(sessions, now, t) /\ t.iat = 0
  /\ \E t \in DOMAIN sessions : Accepted(sessions, now, t) /\ t.iat = 1
  /\ pending = {}
  /\ response.call = "logout_handler"

\* C35: each of the three routes that expose the monitor (dashboard page,
\* status API, metrics API) answers with its state only a request whose
\* session cookie verify_token accepts; any other request is redirected to
\* /login and gets no status lines, anomalies or samples.
C35_StateOnlyToSessions ==
  [][\A h \in Handlers, cookie \in Cookies :
       Request(h, cookie) =>
         IF SessionOk(cookie) THEN response'.status = "Ok"
         ELSE response' = Redirect(h, cookie, "/login")]_vars

====
